---- MODULE Spec2Model ----
(***************************************************************************)
(* The AVL tree of trees/avl/avl.go (package avl, the version with        *)
(* nodeCount, Delete and FormatDFS), as a state machine over a heap of    *)
(* Node cells.  A **Node parameter of the Go code is a "slot": the pair   *)
(* <<owner, field>> naming the pointer variable written through it.       *)
(*                                                                         *)
(* The LRU cache of caches/lru_cache/cache.go, as a state machine over a  *)
(* heap of list node cells, the map from ids to cells and the list's      *)
(* head, tail and count.                                                   *)
(***************************************************************************)
EXTENDS Integers, Sequences, FiniteSets, TLC

\* ----- bounds of the model ---------------------------------------------
\* Spec: keys 1..MaxKey, at most MaxNodes nodes, MaxInserts successful Insert
\* calls and MaxDeletes successful Delete calls
MaxKey == 5
MaxNodes == 6
MaxInserts == 6
MaxDeletes == 2
\* SpecDeep: the same, far enough for a tree of four levels to lose a level
DeepKey == 7
DeepNodes == 8
DeepInserts == 8
DeepDeletes == 3
\* SpecWide: keys 1..WideKey, at most WideNodes nodes, WideInserts successful
\* Insert calls and WideDeletes successful Delete calls: wide enough for a
\* tree of nine nodes to be damaged by a Delete and grown again
WideKey == 9
WideNodes == 10
WideInserts == 10
WideDeletes == 2
\* SpecScenario: the successful Delete calls made on the tree built from 1..8
ScenarioDeletes == 4
\* SpecLoop: the loops insert at most MaxLoopKeys keys (the test inserts 256)
MaxLoopKeys == 8
\* SpecConcurrent: the goroutines 1..MaxGoroutines that call the cache
MaxGoroutines == 2
\* SpecCache: capacities 1..MaxCapacity, ids 1..MaxId, at most MaxPuts Put
\* calls that return nil
MaxCapacity == 2
MaxId == 3
MaxPuts == 3
\* SpecTreap: values 1..MaxTreapVal, generated priorities 0..MaxPriority, at
\* most MaxTreapNodes nodes
MaxTreapVal == 4
MaxPriority == 2
MaxTreapNodes == 4
\* SpecSkiplist: r in 1..MaxR, values 1..MaxSkipVal, at most MaxSkipNodes
\* nodes beside the root
MaxR == 2
MaxSkipVal == 3
MaxSkipNodes == 3

\* ----- program constants -----------------------------------------------
allowedImbalance == 1
\* the tests build their tree with for i := 1; i <= 8; i++ { t.Insert(i) }
ScenarioKeys == 8

max(x, y) == IF x > y THEN x ELSE y

Keys == 1..MaxKey
DeepKeys == 1..DeepKey
AllKeys == Keys \cup DeepKeys
WideKeys == 1..WideKey
ScenarioKeySet == 1..ScenarioKeys
NodeIds == 1..max(max(MaxNodes, DeepNodes), WideNodes)
NIL == 0
ErrNil == "nil"
ErrDuplicateItem == "duplicate item"
ErrItemNotFound == "item not found"

VARIABLES heap, root, nodeCount, ret, panicked, okInserts, okDeletes, loop

\* the tree and what is recorded about its calls; loop is the range of keys
\* the test's for statement runs through, NIL when the test has no such loop
treeVars == <<heap, root, nodeCount, ret, panicked, okInserts, okDeletes, loop>>

VARIABLES itemMap, itemList, capacity, cacheRet, callEnd, recency, okPuts,
          mu, running

\* the cache and what is recorded about its calls; mu is the cache's lock and
\* running tells where each goroutine is in the call it is making
cacheVars == <<itemMap, itemList, capacity, cacheRet, callEnd, recency, okPuts,
               mu, running>>

VARIABLES treapHeap, treapRoot, treapRet

\* the treap and what is recorded about its calls
treapVars == <<treapHeap, treapRoot, treapRet>>

VARIABLES skipNodes, skipR, skipRet, stored

\* the skiplist and what is recorded about its calls
skipVars == <<skipNodes, skipR, skipRet, stored>>

vars == <<heap, root, nodeCount, ret, panicked, okInserts, okDeletes, loop,
          itemMap, itemList, capacity, cacheRet, callEnd, recency, okPuts,
          mu, running,
          treapHeap, treapRoot, treapRet,
          skipNodes, skipR, skipRet, stored>>

\* ----- the heap ----------------------------------------------------------
\* type Node struct { left, right *Node; data int; height int }
Node(l, r, d, ht) == [left |-> l, right |-> r, data |-> d, height |-> ht]

\* a cell no pointer refers to (zero value)
Free == Node(NIL, NIL, 0, 0)

\* type AvlTree struct { root *Node; nodeCount int }, with the heap it points into
AvlTree(h, rt, cnt) == [h |-> h, root |-> rt, nodeCount |-> cnt]

\* the slot &t.root and the slots &p.left, &p.right
RootSlot == <<NIL, "root">>
LeftOf(p) == <<p, "left">>
RightOf(p) == <<p, "right">>

\* *node, for node a **Node
Deref(st, node) ==
    IF node[1] = NIL THEN st.root
    ELSE IF node[2] = "left" THEN st.h[node[1]].left
    ELSE st.h[node[1]].right

\* *node = v, for node a **Node
Store(st, node, v) ==
    IF node[1] = NIL THEN [st EXCEPT !.root = v]
    ELSE IF node[2] = "left" THEN [st EXCEPT !.h[node[1]].left = v]
    ELSE [st EXCEPT !.h[node[1]].right = v]

RECURSIVE reachFrom(_, _, _)
reachFrom(h, S, k) ==
    IF k = 0 THEN S
    ELSE reachFrom(h, S \cup (({h[x].left : x \in S} \cup {h[x].right : x \in S}) \ {NIL}), k - 1)

\* the cells reachable from pointer p
Reach(h, p) == IF p = NIL THEN {} ELSE reachFrom(h, {p}, Cardinality(NodeIds))

\* &Node{...}: the cell handed out by the allocator
NewNode(st) == CHOOSE i \in NodeIds \ Reach(st.h, st.root) :
                  \A j \in NodeIds \ Reach(st.h, st.root) : i <= j

\* the cells of the tree under p, parent before children, left before right
RECURSIVE walk(_, _)
walk(h, p) ==
    IF p = NIL THEN <<>>
    ELSE <<p>> \o walk(h, h[p].left) \o walk(h, h[p].right)

\* the garbage collector: cells unreachable from the tree are reclaimed.  The
\* address of a cell is observable only through pointer equality, so the
\* surviving cells are laid out in the order walk visits them.
Collect(st) ==
    LET order == walk(st.h, st.root)
        addr(p) == IF p = NIL THEN NIL ELSE CHOOSE i \in 1..Len(order) : order[i] = p
    IN  [st EXCEPT
           !.h = [i \in NodeIds |->
                    IF i <= Len(order)
                    THEN Node(addr(st.h[order[i]].left), addr(st.h[order[i]].right),
                              st.h[order[i]].data, st.h[order[i]].height)
                    ELSE Free],
           !.root = addr(st.root)]

\* ----- height bookkeeping ------------------------------------------------
height(h, node) == IF node = NIL THEN -1 ELSE h[node].height

setHeight(st, node) ==
    [st EXCEPT !.h[node].height =
        1 + max(height(st.h, st.h[node].left), height(st.h, st.h[node].right))]

\* ----- results -----------------------------------------------------------
\* what a call leaves behind: the tree, the returned error, and whether it
\* panicked with a nil pointer dereference
Result(st, err, panic) == [st |-> st, err |-> err, panic |-> panic]

\* ----- rotations ---------------------------------------------------------
\* the rotation as it was before k1's right subtree was handed to k2
rotateWithLeftChildDroppingInner(st, rt) ==
    LET k2 == Deref(st, rt)
        k1 == st.h[k2].left
    IN  IF k1 = NIL THEN Result(st, ErrNil, TRUE)
        ELSE LET s1 == [st EXCEPT !.h[k2].left = NIL]
                 s2 == [s1 EXCEPT !.h[k1].right = k2]
                 s3 == Store(s2, rt, k1)
             IN  Result(setHeight(setHeight(s3, k2), k1), ErrNil, FALSE)

\* the rotation as it was before k2 let go of k1
rotateWithLeftChildKeepingLink(st, rt) ==
    LET k2 == Deref(st, rt)
        k1 == st.h[k2].left
    IN  IF k1 = NIL THEN Result(st, ErrNil, TRUE)
        ELSE LET s2 == [st EXCEPT !.h[k1].right = k2]
                 s3 == Store(s2, rt, k1)
             IN  Result(setHeight(setHeight(s3, k2), k1), ErrNil, FALSE)

rotateWithLeftChild(st, rt) ==
    LET k2 == Deref(st, rt)
        k1 == st.h[k2].left
    IN  IF k1 = NIL THEN Result(st, ErrNil, TRUE)
        ELSE LET s1 == [st EXCEPT !.h[k2].left = st.h[k1].right]
                 s2 == [s1 EXCEPT !.h[k1].right = k2]
                 s3 == Store(s2, rt, k1)
             IN  Result(setHeight(setHeight(s3, k2), k1), ErrNil, FALSE)

\* the rotation as it was before the two heights were recomputed
rotateWithRightChildStaleHeights(st, rt) ==
    LET k2 == Deref(st, rt)
        k1 == st.h[k2].right
    IN  IF k1 = NIL THEN Result(st, ErrNil, TRUE)
        ELSE LET s1 == [st EXCEPT !.h[k2].right = st.h[k1].left]
                 s2 == [s1 EXCEPT !.h[k1].left = k2]
             IN  Result(Store(s2, rt, k1), ErrNil, FALSE)

\* the rotation with the two heights recomputed in the other order
rotateWithRightChildPromotedFirst(st, rt) ==
    LET k2 == Deref(st, rt)
        k1 == st.h[k2].right
    IN  IF k1 = NIL THEN Result(st, ErrNil, TRUE)
        ELSE LET s1 == [st EXCEPT !.h[k2].right = st.h[k1].left]
                 s2 == [s1 EXCEPT !.h[k1].left = k2]
                 s3 == Store(s2, rt, k1)
             IN  Result(setHeight(setHeight(s3, k1), k2), ErrNil, FALSE)

rotateWithRightChild(st, rt) ==
    LET k2 == Deref(st, rt)
        k1 == st.h[k2].right
    IN  IF k1 = NIL THEN Result(st, ErrNil, TRUE)
        ELSE LET s1 == [st EXCEPT !.h[k2].right = st.h[k1].left]
                 s2 == [s1 EXCEPT !.h[k1].left = k2]
                 s3 == Store(s2, rt, k1)
             IN  Result(setHeight(setHeight(s3, k2), k1), ErrNil, FALSE)

doubleRotateWithLeftChild(st, node) ==
    LET r == rotateWithRightChild(st, LeftOf(Deref(st, node)))
    IN  IF r.panic THEN r ELSE rotateWithLeftChild(r.st, node)

doubleRotateWithRightChild(st, node) ==
    LET r == rotateWithLeftChild(st, RightOf(Deref(st, node)))
    IN  IF r.panic THEN r ELSE rotateWithRightChild(r.st, node)

\* the comparison the wrong way round
outerLeftDeeperInverted(h, node) ==
    height(h, h[h[node].left].left) < height(h, h[h[node].left].right)

outerLeftDeeper(h, node) ==
    height(h, h[h[node].left].left) > height(h, h[h[node].left].right)

\* the comparison the wrong way round, on the right
outerRightDeeperInverted(h, node) ==
    height(h, h[h[node].right].right) < height(h, h[h[node].right].left)

outerRightDeeper(h, node) ==
    height(h, h[h[node].right].right) > height(h, h[h[node].right].left)

\* balance as it was before it rotated anything
balanceNotRotating(st, node) ==
    IF Deref(st, node) = NIL THEN Result(st, ErrNil, TRUE)
    ELSE Result(st, ErrNil, FALSE)

balance(st, node) ==
    LET p == Deref(st, node)
        leftHeight == height(st.h, st.h[p].left)
        rightHeight == height(st.h, st.h[p].right)
    IN  IF p = NIL THEN Result(st, ErrNil, TRUE)
        ELSE IF leftHeight - rightHeight > allowedImbalance THEN
            IF outerLeftDeeper(st.h, p) THEN rotateWithLeftChild(st, node)
            ELSE doubleRotateWithLeftChild(st, node)
        ELSE IF rightHeight - leftHeight > allowedImbalance THEN
            IF outerRightDeeper(st.h, p) THEN rotateWithRightChild(st, node)
            ELSE doubleRotateWithRightChild(st, node)
        ELSE Result(st, ErrNil, FALSE)

\* ----- insert ------------------------------------------------------------
RECURSIVE insert(_, _, _)

\* insert as it was before the error of the recursive call was returned
insertDroppingErr(st, node, n) ==
    LET p == Deref(st, node)
    IN  IF p = NIL THEN
            LET id == NewNode(st)
                s1 == [st EXCEPT !.h[id] = Node(NIL, NIL, n, 0)]
                s2 == Store(s1, node, id)
            IN  Result([s2 EXCEPT !.nodeCount = @ + 1], ErrNil, FALSE)
        ELSE IF n = st.h[p].data THEN Result(st, ErrDuplicateItem, FALSE)
        ELSE LET r == IF n < st.h[p].data THEN insert(st, LeftOf(p), n)
                      ELSE insert(st, RightOf(p), n)
             IN  IF r.panic THEN r
                 ELSE balance(setHeight(r.st, Deref(r.st, node)), node)

\* insert as it was before the new node was counted
insertNotCounting(st, node, n) ==
    LET p == Deref(st, node)
    IN  IF p = NIL THEN
            LET id == NewNode(st)
                s1 == [st EXCEPT !.h[id] = Node(NIL, NIL, n, 0)]
            IN  Result(Store(s1, node, id), ErrNil, FALSE)
        ELSE IF n = st.h[p].data THEN Result(st, ErrDuplicateItem, FALSE)
        ELSE LET r == IF n < st.h[p].data THEN insert(st, LeftOf(p), n)
                      ELSE insert(st, RightOf(p), n)
             IN  IF r.panic \/ r.err # ErrNil THEN r
                 ELSE balance(setHeight(r.st, Deref(r.st, node)), node)

insert(st, node, n) ==
    LET p == Deref(st, node)
    IN  IF p = NIL THEN
            LET id == NewNode(st)
                s1 == [st EXCEPT !.h[id] = Node(NIL, NIL, n, 0)]
                s2 == Store(s1, node, id)
            IN  Result([s2 EXCEPT !.nodeCount = @ + 1], ErrNil, FALSE)
        ELSE IF n = st.h[p].data THEN Result(st, ErrDuplicateItem, FALSE)
        ELSE LET r == IF n < st.h[p].data THEN insert(st, LeftOf(p), n)
                      ELSE insert(st, RightOf(p), n)
             IN  IF r.panic \/ r.err # ErrNil THEN r
                 ELSE balance(setHeight(r.st, Deref(r.st, node)), node)

\* ----- delete ------------------------------------------------------------
RECURSIVE findMin(_, _)
findMin(h, node) == IF h[node].left = NIL THEN node ELSE findMin(h, h[node].left)

RECURSIVE delete(_, _, _)

\* delete as it was before the error of the recursive call was returned
deleteDroppingErr(st, node, n) ==
    LET p == Deref(st, node)
    IN  IF p = NIL THEN Result(st, ErrItemNotFound, FALSE)
        ELSE
        LET r == IF n < st.h[p].data THEN delete(st, LeftOf(p), n)
                 ELSE IF n > st.h[p].data THEN delete(st, RightOf(p), n)
                 ELSE IF st.h[p].left # NIL /\ st.h[p].right # NIL THEN
                     LET s1 == [st EXCEPT !.h[p].data = st.h[findMin(st.h, st.h[p].right)].data]
                         r2 == delete(s1, RightOf(p), s1.h[p].data)
                     IN  Result(r2.st, ErrNil, r2.panic)
                 ELSE IF st.h[p].left # NIL THEN
                     LET s1 == Store(st, node, st.h[p].left)
                         q == Deref(s1, node)
                         s2 == [s1 EXCEPT !.h[q].left = NIL, !.h[q].right = NIL]
                     IN  Result([s2 EXCEPT !.nodeCount = @ - 1], ErrNil, FALSE)
                 ELSE IF st.h[p].right # NIL THEN
                     LET s1 == Store(st, node, st.h[p].right)
                         q == Deref(s1, node)
                         s2 == [s1 EXCEPT !.h[q].left = NIL, !.h[q].right = NIL]
                     IN  Result([s2 EXCEPT !.nodeCount = @ - 1], ErrNil, FALSE)
                 ELSE Result(st, ErrNil, FALSE)
        IN  IF r.panic THEN r
            ELSE balance(r.st, node)

delete(st, node, n) ==
    LET p == Deref(st, node)
    IN  IF p = NIL THEN Result(st, ErrItemNotFound, FALSE)
        ELSE
        LET r == IF n < st.h[p].data THEN delete(st, LeftOf(p), n)
                 ELSE IF n > st.h[p].data THEN delete(st, RightOf(p), n)
                 ELSE IF st.h[p].left # NIL /\ st.h[p].right # NIL THEN
                     LET s1 == [st EXCEPT !.h[p].data = st.h[findMin(st.h, st.h[p].right)].data]
                         r2 == delete(s1, RightOf(p), s1.h[p].data)
                     IN  Result(r2.st, ErrNil, r2.panic)
                 ELSE IF st.h[p].left # NIL THEN
                     LET s1 == Store(st, node, st.h[p].left)
                         q == Deref(s1, node)
                         s2 == [s1 EXCEPT !.h[q].left = NIL, !.h[q].right = NIL]
                     IN  Result([s2 EXCEPT !.nodeCount = @ - 1], ErrNil, FALSE)
                 ELSE IF st.h[p].right # NIL THEN
                     LET s1 == Store(st, node, st.h[p].right)
                         q == Deref(s1, node)
                         s2 == [s1 EXCEPT !.h[q].left = NIL, !.h[q].right = NIL]
                     IN  Result([s2 EXCEPT !.nodeCount = @ - 1], ErrNil, FALSE)
                 ELSE Result(st, ErrNil, FALSE)
        IN  IF r.panic \/ r.err # ErrNil THEN r
            ELSE balance(r.st, node)

\* ----- find and the traversals -------------------------------------------
RECURSIVE find(_, _, _)
find(h, node, n) ==
    IF node = NIL \/ h[node].data = n THEN node
    ELSE IF n < h[node].data THEN find(h, h[node].left, n)
    ELSE find(h, h[node].right, n)

RECURSIVE preorder(_, _)
preorder(h, node) ==
    IF node = NIL THEN <<>>
    ELSE <<h[node].data>> \o preorder(h, h[node].left) \o preorder(h, h[node].right)

RECURSIVE inorder(_, _)
inorder(h, node) ==
    IF node = NIL THEN <<>>
    ELSE inorder(h, h[node].left) \o <<h[node].data>> \o inorder(h, h[node].right)

RECURSIVE postorder(_, _)
postorder(h, node) ==
    IF node = NIL THEN <<>>
    ELSE postorder(h, h[node].left) \o postorder(h, h[node].right) \o <<h[node].data>>

\* fmt.Sprintf("%d ", node.data) for each visited node, in the order visited
RECURSIVE visitor(_)
visitor(visited) ==
    IF visited = <<>> THEN ""
    ELSE ToString(Head(visited)) \o " " \o visitor(Tail(visited))

PreOrder == "PreOrder"
InOrder == "InOrder"
PostOrder == "PostOrder"

FormatDFS(h, rt, order) ==
    CASE order = PreOrder -> visitor(preorder(h, rt))
      [] order = InOrder -> visitor(inorder(h, rt))
      [] order = PostOrder -> visitor(postorder(h, rt))

\* what a call that returns a value leaves behind: the tree and the value
ReadResult(st, value) == [st |-> st, value |-> value]

\* a Find that moves a key found in the root's left child to the root
FindMovingToRoot(st, n) ==
    LET found == find(st.h, st.root, n)
    IN  IF found # NIL /\ found = st.h[st.root].left
        THEN ReadResult(rotateWithLeftChild(st, RootSlot).st, found)
        ELSE ReadResult(st, found)

\* t.Find(n): the tree as the call leaves it, and the node returned
Find(st, n) == ReadResult(st, find(st.h, st.root, n))

\* t.FormatDFS(order): the tree as the call leaves it, and the string returned
formatDFS(st, order) == ReadResult(st, FormatDFS(st.h, st.root, order))

\* ----- the LRU cache: the doubly linked list -----------------------------
\* the ids of the cached objects (CacheObject.ID) and the cells for list nodes
Ids == 1..MaxId
ListIds == 1..MaxPuts

CacheErrDuplicateItem == "duplicate item"
CacheErrItemNotFound == "item id not found"
errItemNil == "node cannot be nil"

\* type node struct { next, prev *node; item CacheObject }, the item given by
\* its id
listNode(nx, pv, it) == [next |-> nx, prev |-> pv, item |-> it]

\* a cell not yet handed out
unusedNode == listNode(NIL, NIL, 0)

\* type doublyLinkedList struct { head, tail *node; count int }, with the cells
\* its pointers lead to
doublyLinkedList(ns, hd, tl, cnt) == [nodes |-> ns, head |-> hd, tail |-> tl, count |-> cnt]

newDoublyLinkedList == doublyLinkedList([i \in ListIds |-> unusedNode], NIL, NIL, 0)

Prepend(list, newNode) ==
    IF list.head = NIL
    THEN [list EXCEPT !.head = newNode, !.tail = newNode,
                      !.nodes[newNode].prev = NIL, !.nodes[newNode].next = NIL,
                      !.count = 1]
    ELSE [list EXCEPT !.nodes[newNode].next = list.head,
                      !.nodes[list.head].prev = newNode,
                      !.head = newNode,
                      !.count = @ + 1]

\* what a list method leaves behind: the list and the returned error
ListResult(list, err) == [list |-> list, err |-> err]

\* Remove as it would be if the deferred function left count alone
listRemoveKeepingCount(list, target) ==
    IF target = NIL THEN ListResult(list, errItemNil)
    ELSE
    LET t == list.nodes[target]
        unlinked ==
            IF t.prev = NIL /\ t.next = NIL THEN [list EXCEPT !.head = NIL, !.tail = NIL]
            ELSE IF t.prev = NIL THEN [list EXCEPT !.head = t.next]
            ELSE IF t.next = NIL THEN [list EXCEPT !.tail = t.prev]
            ELSE [list EXCEPT !.nodes[t.prev].next = t.next,
                              !.nodes[t.next].prev = t.prev]
    IN  ListResult([unlinked EXCEPT !.nodes[target].prev = NIL,
                                    !.nodes[target].next = NIL], ErrNil)

\* list.Remove(target), the deferred function included
listRemove(list, target) ==
    IF target = NIL THEN ListResult(list, errItemNil)
    ELSE
    LET t == list.nodes[target]
        unlinked ==
            IF t.prev = NIL /\ t.next = NIL THEN [list EXCEPT !.head = NIL, !.tail = NIL]
            ELSE IF t.prev = NIL THEN [list EXCEPT !.head = t.next]
            ELSE IF t.next = NIL THEN [list EXCEPT !.tail = t.prev]
            ELSE [list EXCEPT !.nodes[t.prev].next = t.next,
                              !.nodes[t.next].prev = t.prev]
    IN  ListResult([unlinked EXCEPT !.nodes[target].prev = NIL,
                                    !.nodes[target].next = NIL,
                                    !.count = @ - 1], ErrNil)

RotateFront(list, target) ==
    IF target = NIL THEN ListResult(list, errItemNil)
    ELSE IF list.nodes[target].prev = NIL THEN ListResult(list, ErrNil)
    ELSE ListResult(Prepend(listRemove(list, target).list, target), ErrNil)

\* the result of following next from a nil pointer
NilDeref == -1

\* evicted = evicted.next, i times over
RECURSIVE advance(_, _, _)
advance(nodes, evicted, i) ==
    IF i = 0 THEN evicted
    ELSE IF evicted = NIL THEN NilDeref
    ELSE advance(nodes, nodes[evicted].next, i - 1)

\* what TrimRight leaves behind: the list, the returned node, and whether it
\* panicked with a nil pointer dereference
TrimResult(list, evicted, panic) == [list |-> list, evicted |-> evicted, panic |-> panic]

TrimRight(list, n) ==
    IF list.count <= n THEN TrimResult(list, NIL, FALSE)
    ELSE
    LET evicted == advance(list.nodes, list.head, n)
    IN  IF evicted = NilDeref THEN TrimResult(list, NIL, TRUE)
        ELSE IF evicted = list.head THEN
            TrimResult([list EXCEPT !.head = NIL, !.tail = NIL, !.count = 0], evicted, FALSE)
        ELSE IF evicted = list.tail THEN
            IF list.tail = NIL \/ list.nodes[list.tail].prev = NIL
            THEN TrimResult(list, NIL, TRUE)
            ELSE TrimResult([list EXCEPT !.nodes[list.nodes[list.tail].prev].next = NIL,
                                         !.tail = list.nodes[list.tail].prev,
                                         !.nodes[evicted].prev = NIL,
                                         !.count = @ - 1], evicted, FALSE)
        ELSE IF evicted = NIL \/ list.nodes[evicted].prev = NIL
            THEN TrimResult(list, NIL, TRUE)
            ELSE TrimResult([list EXCEPT !.tail = list.nodes[evicted].prev,
                                         !.nodes[list.nodes[evicted].prev].next = NIL,
                                         !.nodes[evicted].prev = NIL,
                                         !.count = n], evicted, FALSE)

\* ----- the LRU cache: the lock and the goroutines ------------------------
Goroutines == 1..MaxGoroutines

\* sync.RWMutex: the goroutine that holds it for writing, NIL when none does,
\* and the goroutines that hold it for reading
RWMutex(writer, readers) == [writer |-> writer, readers |-> readers]

\* sync.RWMutex{}
unlocked == RWMutex(NIL, {})

\* where a goroutine is: the method it is in, the id it was called with, its
\* position in that method, and its local variable target
Running(op, id, pc, target) == [op |-> op, id |-> id, pc |-> pc, target |-> target]

\* a goroutine that is in no method of the cache
idle == Running("none", 0, "idle", NIL)

\* ----- the LRU cache: Put, Get, Remove -----------------------------------
\* type Cache struct { itemMap map[int]*node; itemList *doublyLinkedList;
\* capacity int }
Cache(m, list, cap) == [itemMap |-> m, itemList |-> list, capacity |-> cap]

\* delete(m, id) as it would be if it deleted nothing
mapDeleteNothing(m, id) == m

\* delete(m, id)
mapDelete(m, id) == [i \in DOMAIN m \ {id} |-> m[i]]

\* &node{item: item}: the cell handed out by the allocator
newListNode(list) == CHOOSE i \in ListIds :
                        /\ list.nodes[i].item = 0
                        /\ \A j \in ListIds : list.nodes[j].item = 0 => i <= j

\* how a call ends: it returns, it panics, or it never leaves a loop
Returns == "returns"
Panics == "panics"
LoopsForever == "loops forever"

\* what a method of the cache leaves behind: the cache, the returned error,
\* item and exists, and how the call ended
CacheResult(cache, err, item, exists, end) ==
    [cache |-> cache, err |-> err, item |-> item, exists |-> exists, end |-> end]

\* the eviction loop as it would be without delete(cache.itemMap, ...)
RECURSIVE evictKeepingMap(_, _, _)
evictKeepingMap(cache, evicted, rounds) ==
    IF evicted = NIL THEN CacheResult(cache, ErrNil, 0, FALSE, Returns)
    ELSE IF rounds = 0 THEN CacheResult(cache, ErrNil, 0, FALSE, LoopsForever)
    ELSE evictKeepingMap([cache EXCEPT !.itemList.nodes[evicted].prev = NIL],
                         cache.itemList.nodes[evicted].next, rounds - 1)

\* for evicted != nil { delete(cache.itemMap, evicted.item.ID()); evicted.prev
\* = nil; evicted = evicted.next }, a loop that ends within as many rounds as
\* there are cells or not at all
RECURSIVE evict(_, _, _)
evict(cache, evicted, rounds) ==
    IF evicted = NIL THEN CacheResult(cache, ErrNil, 0, FALSE, Returns)
    ELSE IF rounds = 0 THEN CacheResult(cache, ErrNil, 0, FALSE, LoopsForever)
    ELSE evict([cache EXCEPT !.itemMap = mapDelete(@, cache.itemList.nodes[evicted].item),
                             !.itemList.nodes[evicted].prev = NIL],
               cache.itemList.nodes[evicted].next, rounds - 1)

\* Put as it would be if a duplicate counted as a use of the cached item
putRotatingDuplicate(cache, id) ==
    IF id \in DOMAIN cache.itemMap
    THEN CacheResult([cache EXCEPT !.itemList = RotateFront(@, cache.itemMap[id]).list],
                     CacheErrDuplicateItem, 0, FALSE, Returns)
    ELSE
    LET newNode == newListNode(cache.itemList)
        fresh == [cache.itemList EXCEPT !.nodes[newNode] = listNode(NIL, NIL, id)]
        c1 == [cache EXCEPT !.itemList = Prepend(fresh, newNode),
                            !.itemMap = (id :> newNode) @@ @]
        trimmed == TrimRight(c1.itemList, c1.capacity)
    IN  IF trimmed.panic THEN CacheResult(c1, ErrNil, 0, FALSE, Panics)
        ELSE evict([c1 EXCEPT !.itemList = trimmed.list], trimmed.evicted,
                   Cardinality(ListIds))

put(cache, id) ==
    IF id \in DOMAIN cache.itemMap
    THEN CacheResult(cache, CacheErrDuplicateItem, 0, FALSE, Returns)
    ELSE
    LET newNode == newListNode(cache.itemList)
        fresh == [cache.itemList EXCEPT !.nodes[newNode] = listNode(NIL, NIL, id)]
        c1 == [cache EXCEPT !.itemList = Prepend(fresh, newNode),
                            !.itemMap = (id :> newNode) @@ @]
        trimmed == TrimRight(c1.itemList, c1.capacity)
    IN  IF trimmed.panic THEN CacheResult(c1, ErrNil, 0, FALSE, Panics)
        ELSE evict([c1 EXCEPT !.itemList = trimmed.list], trimmed.evicted,
                   Cardinality(ListIds))

get(cache, id) ==
    IF id \notin DOMAIN cache.itemMap
    THEN CacheResult(cache, ErrNil, 0, FALSE, Returns)
    ELSE
    LET target == cache.itemMap[id]
        rotated == RotateFront(cache.itemList, target).list
    IN  CacheResult([cache EXCEPT !.itemList = rotated], ErrNil,
                    rotated.nodes[target].item, TRUE, Returns)

remove(cache, id) ==
    IF id \notin DOMAIN cache.itemMap
    THEN CacheResult(cache, CacheErrItemNotFound, 0, FALSE, Returns)
    ELSE
    LET target == cache.itemMap[id]
        removed == listRemove(cache.itemList, target)
    IN  IF removed.err # ErrNil THEN CacheResult(cache, removed.err, 0, FALSE, Returns)
        ELSE CacheResult([cache EXCEPT !.itemList = removed.list,
                                       !.itemMap = mapDelete(@, removed.list.nodes[target].item)],
                         ErrNil, 0, FALSE, Returns)

\* ----- the treap -------------------------------------------------------
TreapVals == 1..MaxTreapVal
Priorities == 0..MaxPriority
TreapIds == 1..MaxTreapNodes
ErrValueNotFound == "value not found"
ErrDuplicateValue == "duplicate value"

\* type treapNode struct { val int; priority int; left, right *treapNode }
treapNode(v, p, l, r) == [val |-> v, priority |-> p, left |-> l, right |-> r]

\* a cell not yet allocated
unusedTreapNode == treapNode(0, 0, NIL, NIL)

\* type Treap struct { root *treapNode }, with the heap it points into
Treap(h, rt) == [h |-> h, root |-> rt]

\* &treapNode{...}: the cell handed out by the allocator
newTreapNode(t) == CHOOSE i \in TreapIds :
                      /\ t.h[i] = unusedTreapNode
                      /\ \A j \in TreapIds : t.h[j] = unusedTreapNode => i <= j

\* the links &t.root, &node.left and &node.right
TreapRootLink == <<NIL, "root">>

\* *parentLink = p
setLink(t, parentLink, p) ==
    IF parentLink[2] = "root" THEN [t EXCEPT !.root = p]
    ELSE IF parentLink[2] = "left" THEN [t EXCEPT !.h[parentLink[1]].left = p]
    ELSE [t EXCEPT !.h[parentLink[1]].right = p]

\* what a rotation leaves behind: the treap and the returned node
Rotated(t, node) == [t |-> t, node |-> node]

rotateLeftChild(t, node) ==
    IF t.h[node].priority < t.h[t.h[node].left].priority THEN Rotated(t, node)
    ELSE LET leftChild == t.h[node].left
         IN  Rotated([t EXCEPT !.h[node].left = t.h[leftChild].right,
                               !.h[leftChild].right = node], leftChild)

rotateRightChild(t, node) ==
    IF t.h[node].priority < t.h[t.h[node].right].priority THEN Rotated(t, node)
    ELSE LET rightChild == t.h[node].right
         IN  Rotated([t EXCEPT !.h[node].right = t.h[rightChild].left,
                               !.h[rightChild].left = node], rightChild)

\* what Insert leaves behind: the treap, the returned error, and whether it
\* panicked
TreapResult(t, err, panic) == [t |-> t, err |-> err, panic |-> panic]

\* t.insert(val, node, parentLink), priority being what priority_generator()
\* returns if it is called
RECURSIVE treapInsert(_, _, _, _, _)
treapInsert(t, val, node, parentLink, priority) ==
    IF node = NIL THEN TreapResult(t, ErrNil, TRUE)
    ELSE IF t.h[node].val = val THEN TreapResult(t, ErrDuplicateValue, FALSE)
    ELSE IF val < t.h[node].val THEN
        IF t.h[node].left # NIL
        THEN treapInsert(t, val, t.h[node].left, <<node, "left">>, priority)
        ELSE LET new == newTreapNode(t)
                 rot == rotateLeftChild(
                            [t EXCEPT !.h[new] = treapNode(val, priority, NIL, NIL),
                                      !.h[node].left = new], node)
             IN  TreapResult(setLink(rot.t, parentLink, rot.node), ErrNil, FALSE)
    ELSE
        IF t.h[node].right # NIL
        THEN treapInsert(t, val, t.h[node].right, <<node, "right">>, priority)
        ELSE LET new == newTreapNode(t)
                 rot == rotateRightChild(
                            [t EXCEPT !.h[new] = treapNode(val, priority, NIL, NIL),
                                      !.h[node].right = new], node)
             IN  TreapResult(setLink(rot.t, parentLink, rot.node), ErrNil, FALSE)

\* t.Insert(val)
TreapInsert(t, val, priority) ==
    IF t.root = NIL
    THEN LET new == newTreapNode(t)
         IN  TreapResult([t EXCEPT !.h[new] = treapNode(val, 0, NIL, NIL), !.root = new],
                         ErrNil, FALSE)
    ELSE treapInsert(t, val, t.root, TreapRootLink, priority)

\* isHeap of the tests: no node's priority is greater than a child's
RECURSIVE isHeap(_, _)
isHeap(h, node) ==
    IF node = NIL THEN TRUE
    ELSE IF h[node].left # NIL /\ h[node].priority > h[h[node].left].priority THEN FALSE
    ELSE IF h[node].right # NIL /\ h[node].priority > h[h[node].right].priority THEN FALSE
    ELSE isHeap(h, h[node].left) /\ isHeap(h, h[node].right)

\* the vals of the subtree of node
RECURSIVE treapVals(_, _)
treapVals(h, node) ==
    IF node = NIL THEN {}
    ELSE {h[node].val} \cup treapVals(h, h[node].left) \cup treapVals(h, h[node].right)

\* bst-ordering of the README: at every node A the left subtree contains
\* x' < A.x and the right subtree x' > A.x
RECURSIVE bstOrdered(_, _)
bstOrdered(h, node) ==
    IF node = NIL THEN TRUE
    ELSE /\ \A v \in treapVals(h, h[node].left) : v < h[node].val
         /\ \A v \in treapVals(h, h[node].right) : v > h[node].val
         /\ bstOrdered(h, h[node].left)
         /\ bstOrdered(h, h[node].right)

\* ----- the skiplist ----------------------------------------------------
Ranks == 1..MaxR
SkipVals == 1..MaxSkipVal
SkipIds == 1..(MaxSkipNodes + 1)

\* type skipNode struct { next []*skipNode; value int }; next[i] of the source
\* is next[i + 1] here
skipNode(nx, v) == [next |-> nx, value |-> v]

\* a cell not allocated, or a deleted node, whose next is nil
unusedSkipNode == skipNode(<<>>, 0)

\* sl.root, the cell NewSkiplist allocates
skipRoot == 1

\* -math.MaxInt, as far down as the integers here go
sentinelValue == -2147483647

\* what the last call on the skiplist was, the error and the value it returned
SkipCall(op, err, value) == [op |-> op, err |-> err, value |-> value]

\* type Skiplist struct { root *skipNode; r int }, with the heap it points into
Skiplist(nodes, rt, r) == [nodes |-> nodes, root |-> rt, r |-> r]

\* the same loop as it would be with <= for <
RECURSIVE lastBeforeOrAt(_, _, _, _)
lastBeforeOrAt(nodes, node, rank, n) ==
    LET nx == nodes[node].next[rank]
    IN  IF nx # NIL /\ nodes[nx].value <= n THEN lastBeforeOrAt(nodes, nx, rank, n)
        ELSE node

\* for node.next[rank] != nil && node.next[rank].value < n { node =
\* node.next[rank] }
RECURSIVE lastBefore(_, _, _, _)
lastBefore(nodes, node, rank, n) ==
    LET nx == nodes[node].next[rank]
    IN  IF nx # NIL /\ nodes[nx].value < n THEN lastBefore(nodes, nx, rank, n)
        ELSE node

\* for rank := sl.r - 1; rank >= 0; rank-- { ...; pointees[rank] = node }
RECURSIVE searchDown(_, _, _, _, _)
searchDown(nodes, node, rank, n, pointees) ==
    IF rank < 1 THEN pointees
    ELSE LET last == lastBefore(nodes, node, rank, n)
         IN  searchDown(nodes, last, rank - 1, n, [pointees EXCEPT ![rank] = last])

search(sl, n) == searchDown(sl.nodes, sl.root, sl.r, n, [k \in 1..sl.r |-> NIL])

\* what a method of the skiplist leaves behind: the list, the returned value
\* and the returned error
SkipResult(sl, value, err) == [sl |-> sl, value |-> value, err |-> err]

skipGet(sl, n) ==
    LET ptrs == search(sl, n)
        found == sl.nodes[ptrs[1]].next[1]
    IN  IF found = NIL \/ sl.nodes[found].value # n
        THEN SkipResult(sl, 0, ErrValueNotFound)
        ELSE SkipResult(sl, sl.nodes[found].value, ErrNil)

\* &skipNode{...}: the cell handed out by the allocator
newSkipNode(sl) == CHOOSE i \in SkipIds :
                      /\ sl.nodes[i] = unusedSkipNode
                      /\ \A j \in SkipIds : sl.nodes[j] = unusedSkipNode => i <= j

\* for i := 0; i < len(newNode.next); i++ { newNode.next[i] =
\* pointees[i].next[i]; pointees[i].next[i] = newNode }, from i on
RECURSIVE thread(_, _, _, _)
thread(nodes, pointees, newNode, i) ==
    IF i > Len(nodes[newNode].next) THEN nodes
    ELSE LET n1 == [nodes EXCEPT ![newNode].next[i] = nodes[pointees[i]].next[i]]
             n2 == [n1 EXCEPT ![pointees[i]].next[i] = newNode]
         IN  thread(n2, pointees, newNode, i + 1)

\* sl.Insert(n), hdrSize being what rand_generator(sl.r) returns if it is
\* called
skipInsert(sl, n, hdrSize) ==
    LET pointees == search(sl, n)
        first == sl.nodes[pointees[1]].next[1]
    IN  IF first # NIL /\ sl.nodes[first].value = n
        THEN SkipResult(sl, 0, ErrDuplicateValue)
        ELSE LET newNode == newSkipNode(sl)
                 made == [sl.nodes EXCEPT
                             ![newNode] = skipNode([k \in 1..hdrSize |-> NIL], n)]
             IN  SkipResult([sl EXCEPT !.nodes = thread(made, pointees, newNode, 1)],
                            0, ErrNil)

\* the loop of Delete as it would be if it stopped after the rank-0 pointer
forwardRankZeroOnly(nodes, pointees, target, i) ==
    IF i > 1 THEN nodes
    ELSE LET n1 == [nodes EXCEPT ![pointees[i]].next[i] = nodes[target].next[i]]
         IN  [n1 EXCEPT ![target].next[i] = NIL]

\* for i := 0; i < len(target.next); i++ { pointees[i].next[i] =
\* target.next[i]; target.next[i] = nil }, from i on
RECURSIVE forward(_, _, _, _)
forward(nodes, pointees, target, i) ==
    IF i > Len(nodes[target].next) THEN nodes
    ELSE LET n1 == [nodes EXCEPT ![pointees[i]].next[i] = nodes[target].next[i]]
             n2 == [n1 EXCEPT ![target].next[i] = NIL]
         IN  forward(n2, pointees, target, i + 1)

skipDelete(sl, n) ==
    LET pointees == search(sl, n)
        target == sl.nodes[pointees[1]].next[1]
    IN  IF target = NIL \/ sl.nodes[target].value # n
        THEN SkipResult(sl, 0, ErrValueNotFound)
        ELSE LET forwarded == forward(sl.nodes, pointees, target, 1)
             IN  SkipResult([sl EXCEPT !.nodes = [forwarded EXCEPT ![target].next = <<>>]],
                            0, ErrNil)

\* the cells some next pointer of the cells in seen leads to, and those
RECURSIVE pointedTo(_, _)
pointedTo(nodes, seen) ==
    LET more == UNION {{nodes[i].next[k] : k \in DOMAIN nodes[i].next} : i \in seen} \ {NIL}
    IN  IF more \subseteq seen THEN seen ELSE pointedTo(nodes, seen \cup more)

\* the garbage collector: a cell that no pointer leads to from the root is
\* free again
skipCollect(sl) ==
    LET live == pointedTo(sl.nodes, {sl.root})
    IN  [sl EXCEPT !.nodes = [i \in SkipIds |->
                                 IF i \in live THEN sl.nodes[i] ELSE unusedSkipNode]]

\* ----- the state machine -------------------------------------------------
\* heap, root, nodeCount: the tree.  ret: the last call and the error it
\* returned.  panicked: a call died on a nil pointer.  okInserts, okDeletes:
\* how many Insert and Delete calls have returned nil so far.

\* the tree the variables hold
Tree == AvlTree(heap, root, nodeCount)

\* what the last call was and what it returned
Call(op, err) == [op |-> op, err |-> err]

\* itemMap, itemList, capacity: the cache.  cacheRet: the last call on the
\* cache and what it returned.  callEnd: how that call ended.  okPuts: how many
\* Put calls have returned nil so far.  recency: the cached ids, the one whose
\* latest Put or successful Get is the newest first.

\* the cache the variables hold
TheCache == Cache(itemMap, itemList, capacity)

\* what the last call on the cache was and what it returned
CacheCall(op, err, item, exists) == [op |-> op, err |-> err, item |-> item, exists |-> exists]

NewTree ==
    /\ heap = [i \in NodeIds |-> Free]
    /\ root = NIL
    /\ nodeCount = 0
    /\ ret = Call("NewTree", ErrNil)
    /\ panicked = FALSE
    /\ okInserts = 0
    /\ okDeletes = 0
    /\ loop = NIL

NewCache(cap) ==
    /\ itemMap = [i \in {} |-> NIL]
    /\ itemList = newDoublyLinkedList
    /\ capacity = cap
    /\ cacheRet = CacheCall("NewCache", ErrNil, 0, FALSE)
    /\ callEnd = Returns
    /\ recency = <<>>
    /\ okPuts = 0
    /\ mu = unlocked
    /\ running = [g \in Goroutines |-> idle]

NewTreap ==
    /\ treapHeap = [i \in TreapIds |-> unusedTreapNode]
    /\ treapRoot = NIL
    /\ treapRet = Call("NewTreap", ErrNil)

NewSkiplist(r) ==
    /\ skipNodes = [i \in SkipIds |-> IF i = skipRoot
                                      THEN skipNode([k \in 1..r |-> NIL], sentinelValue)
                                      ELSE unusedSkipNode]
    /\ skipR = r
    /\ skipRet = SkipCall("NewSkiplist", ErrNil, 0)
    /\ stored = {}

\* a new tree; the cache, the treap and the skiplist that stand by are not
\* used by the calls on the tree
Init == NewTree /\ NewCache(1) /\ NewTreap /\ NewSkiplist(1)

\* what the last call was and the value it returned, for a call that returns
\* no error
ValueCall(op, value) == [op |-> op, err |-> ErrNil, value |-> value]

\* t.Insert(n)
InsertCall(n) ==
    /\ ~panicked
    /\ \E r \in {insert(Tree, RootSlot, n)} : \E s \in {Collect(r.st)} :
           /\ heap' = s.h
           /\ root' = s.root
           /\ nodeCount' = s.nodeCount
           /\ panicked' = r.panic
           /\ ret' = Call("Insert", r.err)
           /\ okInserts' = IF ~r.panic /\ r.err = ErrNil THEN okInserts + 1 ELSE okInserts
           /\ UNCHANGED <<okDeletes, loop>>
    /\ UNCHANGED <<cacheVars, treapVars, skipVars>>

\* t.Delete(n)
DeleteCall(n) ==
    /\ ~panicked
    /\ \E r \in {delete(Tree, RootSlot, n)} : \E s \in {Collect(r.st)} :
           /\ heap' = s.h
           /\ root' = s.root
           /\ nodeCount' = s.nodeCount
           /\ panicked' = r.panic
           /\ ret' = Call("Delete", r.err)
           /\ okDeletes' = IF ~r.panic /\ r.err = ErrNil THEN okDeletes + 1 ELSE okDeletes
           /\ UNCHANGED <<okInserts, loop>>
    /\ UNCHANGED <<cacheVars, treapVars, skipVars>>

\* the calls a test of Spec makes
Insert(n) ==
    /\ okInserts < MaxInserts
    /\ Len(walk(heap, root)) < MaxNodes
    /\ InsertCall(n)

Delete(n) ==
    /\ okDeletes < MaxDeletes
    /\ DeleteCall(n)

Next ==
    \/ \E n \in Keys : Insert(n)
    \/ \E n \in Keys : Delete(n)

Spec == Init /\ [][Next]_vars

\* the calls a test of SpecDeep makes
DeepInsert(n) ==
    /\ okInserts < DeepInserts
    /\ Len(walk(heap, root)) < DeepNodes
    /\ InsertCall(n)

DeepDelete(n) ==
    /\ okDeletes < DeepDeletes
    /\ DeleteCall(n)

NextDeep ==
    \/ \E n \in DeepKeys : DeepInsert(n)
    \/ \E n \in DeepKeys : DeepDelete(n)

SpecDeep == Init /\ [][NextDeep]_vars

\* the calls a test of SpecWide makes
WideInsert(n) ==
    /\ okInserts < WideInserts
    /\ Len(walk(heap, root)) < WideNodes
    /\ InsertCall(n)

WideDelete(n) ==
    /\ okDeletes < WideDeletes
    /\ DeleteCall(n)

NextWide ==
    \/ \E n \in WideKeys : WideInsert(n)
    \/ \E n \in WideKeys : WideDelete(n)

SpecWide == Init /\ [][NextWide]_vars

\* t.Find(n)
FindCall(n) ==
    /\ ~panicked
    /\ \E r \in {Find(Tree, n)} :
           /\ heap' = r.st.h
           /\ root' = r.st.root
           /\ nodeCount' = r.st.nodeCount
           /\ ret' = ValueCall("Find", r.value)
    /\ UNCHANGED <<panicked, okInserts, okDeletes, loop>>
    /\ UNCHANGED <<cacheVars, treapVars, skipVars>>

\* the three orders of DFSOrder
DFSOrders == {PreOrder, PostOrder, InOrder}

\* t.FormatDFS(order)
FormatDFSCall(order) ==
    /\ ~panicked
    /\ \E r \in {formatDFS(Tree, order)} :
           /\ heap' = r.st.h
           /\ root' = r.st.root
           /\ nodeCount' = r.st.nodeCount
           /\ ret' = ValueCall("FormatDFS", r.value)
    /\ UNCHANGED <<panicked, okInserts, okDeletes, loop>>
    /\ UNCHANGED <<cacheVars, treapVars, skipVars>>

\* the calls of a test that also looks keys up and prints the tree
NextReads ==
    \/ \E n \in Keys : Insert(n)
    \/ \E n \in Keys : Delete(n)
    \/ \E n \in Keys : FindCall(n)
    \/ \E order \in DFSOrders : FormatDFSCall(order)

SpecReads == Init /\ [][NextReads]_vars

\* the cases of "When progressively building a large contrived tree"
tcs == <<
    [val |-> 1, expectedPreOrder |-> "1 ", expectedPostOrder |-> "1 "],
    [val |-> 2, expectedPreOrder |-> "1 2 ", expectedPostOrder |-> "2 1 "],
    [val |-> 3, expectedPreOrder |-> "2 1 3 ", expectedPostOrder |-> "1 3 2 "],
    [val |-> 4, expectedPreOrder |-> "2 1 3 4 ", expectedPostOrder |-> "1 4 3 2 "],
    [val |-> 5, expectedPreOrder |-> "2 1 4 3 5 ", expectedPostOrder |-> "1 3 5 4 2 "],
    [val |-> 6, expectedPreOrder |-> "4 2 1 3 5 6 ", expectedPostOrder |-> "1 3 2 6 5 4 "],
    [val |-> 7, expectedPreOrder |-> "4 2 1 3 6 5 7 ", expectedPostOrder |-> "1 3 2 5 7 6 4 "],
    [val |-> 8, expectedPreOrder |-> "4 2 1 3 6 5 7 8 ", expectedPostOrder |-> "1 3 2 5 8 7 6 4 "] >>

\* the calls of the tests that build the tree from 1, 2, ..., 8 in that order
\* and then delete from it
ScenarioInsert ==
    /\ okDeletes = 0
    /\ okInserts < ScenarioKeys
    /\ InsertCall(tcs[okInserts + 1].val)

ScenarioDelete(n) ==
    /\ okDeletes < ScenarioDeletes
    /\ DeleteCall(n)

NextScenario ==
    \/ ScenarioInsert
    \/ \E n \in ScenarioKeySet : ScenarioDelete(n)

SpecScenario == Init /\ [][NextScenario]_vars

\* ----- the loops of the stress test -------------------------------------
RECURSIVE pow2(_)
pow2(k) == IF k = 0 THEN 1 ELSE 2 * pow2(k - 1)

\* the numbers of keys 2^k a loop inserts, within the bound and the heap
LoopSizes ==
    {N \in 1..MaxLoopKeys :
        N <= Cardinality(NodeIds) /\ \E k \in 0..MaxLoopKeys : N = pow2(k)}

\* for i := 0; i < N; i++ and for i := N - 1; i >= 0; i--
Loops ==
    {[first |-> 0, last |-> N - 1] : N \in LoopSizes}
        \cup {[first |-> N - 1, last |-> 0] : N \in LoopSizes}

\* the keys the loops and the lookups use
LoopKeys == 0..(MaxLoopKeys - 1)

\* how many keys the loop runs through, and the key of its next iteration
loopLen == IF loop.first <= loop.last THEN loop.last - loop.first + 1
           ELSE loop.first - loop.last + 1
loopKey == IF loop.first <= loop.last THEN loop.first + okInserts
           ELSE loop.first - okInserts

\* t = NewTree() before a loop
NewTreeBefore(l) ==
    /\ heap = [i \in NodeIds |-> Free]
    /\ root = NIL
    /\ nodeCount = 0
    /\ ret = Call("NewTree", ErrNil)
    /\ panicked = FALSE
    /\ okInserts = 0
    /\ okDeletes = 0
    /\ loop = l

InitLoop ==
    /\ \E l \in Loops : NewTreeBefore(l)
    /\ NewCache(1) /\ NewTreap /\ NewSkiplist(1)

\* err := t.Insert(i) in the body of the loop
LoopInsert ==
    /\ ret.op = "Insert" => ret.err = ErrNil
    /\ okInserts < loopLen
    /\ InsertCall(loopKey)

\* the loop, with lookups and printouts of the tree between its iterations
NextLoop ==
    \/ LoopInsert
    \/ \E n \in LoopKeys : FindCall(n)
    \/ \E order \in DFSOrders : FormatDFSCall(order)

SpecLoop == InitLoop /\ [][NextLoop]_vars

\* ----- the calls on the cache --------------------------------------------
\* the ids of seq that are in the set kept, in the order of seq
only(seq, kept) == SelectSeq(seq, LAMBDA id : id \in kept)

\* cache.Put(&foo{id: id})
PutCall(id) ==
    /\ callEnd = Returns
    /\ \E r \in {put(TheCache, id)} :
           /\ itemMap' = r.cache.itemMap
           /\ itemList' = r.cache.itemList
           /\ capacity' = r.cache.capacity
           /\ cacheRet' = CacheCall("Put", r.err, r.item, r.exists)
           /\ callEnd' = r.end
           /\ okPuts' = IF r.end = Returns /\ r.err = ErrNil THEN okPuts + 1 ELSE okPuts
           /\ recency' = only(IF r.end = Returns /\ r.err = ErrNil
                              THEN <<id>> \o recency ELSE recency,
                              DOMAIN r.cache.itemMap)
    /\ UNCHANGED <<mu, running>>
    /\ UNCHANGED <<treeVars, treapVars, skipVars>>

\* cache.Get(id)
GetCall(id) ==
    /\ callEnd = Returns
    /\ \E r \in {get(TheCache, id)} :
           /\ itemMap' = r.cache.itemMap
           /\ itemList' = r.cache.itemList
           /\ capacity' = r.cache.capacity
           /\ cacheRet' = CacheCall("Get", r.err, r.item, r.exists)
           /\ callEnd' = r.end
           /\ recency' = IF r.exists THEN <<id>> \o only(recency, Ids \ {id}) ELSE recency
    /\ UNCHANGED <<okPuts, mu, running>>
    /\ UNCHANGED <<treeVars, treapVars, skipVars>>

\* cache.Remove(id)
RemoveCall(id) ==
    /\ callEnd = Returns
    /\ \E r \in {remove(TheCache, id)} :
           /\ itemMap' = r.cache.itemMap
           /\ itemList' = r.cache.itemList
           /\ capacity' = r.cache.capacity
           /\ cacheRet' = CacheCall("Remove", r.err, r.item, r.exists)
           /\ callEnd' = r.end
           /\ recency' = only(recency, DOMAIN r.cache.itemMap)
    /\ UNCHANGED <<okPuts, mu, running>>
    /\ UNCHANGED <<treeVars, treapVars, skipVars>>

\* the calls a test of SpecCache makes
Put(id) ==
    /\ okPuts < MaxPuts
    /\ PutCall(id)

NextCache ==
    \/ \E id \in Ids : Put(id)
    \/ \E id \in Ids : GetCall(id)
    \/ \E id \in Ids : RemoveCall(id)

\* cache, err := NewCache(cap) with cap > 0, beside a tree that is not used
InitCache ==
    /\ NewTree /\ NewTreap /\ NewSkiplist(1)
    /\ \E cap \in 1..MaxCapacity : NewCache(cap)

SpecCache == InitCache /\ [][NextCache]_vars

\* ----- the calls on the cache, from several goroutines --------------------
\* cache.mu.Lock(), the first statement of Put and of Remove, by goroutine g
Lock(g, op, id) ==
    /\ callEnd = Returns
    /\ running[g] = idle
    /\ mu = unlocked
    /\ op = "Put" => okPuts < MaxPuts
    /\ mu' = RWMutex(g, {})
    /\ running' = [running EXCEPT ![g] = Running(op, id, "locked", NIL)]
    /\ UNCHANGED <<itemMap, itemList, capacity, cacheRet, callEnd, recency, okPuts>>
    /\ UNCHANGED <<treeVars, treapVars, skipVars>>

\* cache.mu.RLock(), the first statement of Get, by goroutine g
RLock(g, id) ==
    /\ callEnd = Returns
    /\ running[g] = idle
    /\ mu.writer = NIL
    /\ mu' = [mu EXCEPT !.readers = @ \cup {g}]
    /\ running' = [running EXCEPT ![g] = Running("Get", id, "locked", NIL)]
    /\ UNCHANGED <<itemMap, itemList, capacity, cacheRet, callEnd, recency, okPuts>>
    /\ UNCHANGED <<treeVars, treapVars, skipVars>>

\* the rest of Put by the goroutine that holds the lock, and the deferred
\* cache.mu.Unlock(), which a call that never returns never reaches
PutBody(g) ==
    /\ callEnd = Returns
    /\ running[g].op = "Put"
    /\ running[g].pc = "locked"
    /\ \E r \in {put(TheCache, running[g].id)} :
           /\ itemMap' = r.cache.itemMap
           /\ itemList' = r.cache.itemList
           /\ capacity' = r.cache.capacity
           /\ cacheRet' = CacheCall("Put", r.err, r.item, r.exists)
           /\ callEnd' = r.end
           /\ okPuts' = IF r.end = Returns /\ r.err = ErrNil THEN okPuts + 1 ELSE okPuts
           /\ recency' = only(IF r.end = Returns /\ r.err = ErrNil
                              THEN <<running[g].id>> \o recency ELSE recency,
                              DOMAIN r.cache.itemMap)
           /\ mu' = IF r.end = LoopsForever THEN mu ELSE unlocked
           /\ running' = IF r.end = LoopsForever THEN running
                         ELSE [running EXCEPT ![g] = idle]
    /\ UNCHANGED <<treeVars, treapVars, skipVars>>

\* the rest of Remove by the goroutine that holds the lock, and the deferred
\* cache.mu.Unlock()
RemoveBody(g) ==
    /\ callEnd = Returns
    /\ running[g].op = "Remove"
    /\ running[g].pc = "locked"
    /\ \E r \in {remove(TheCache, running[g].id)} :
           /\ itemMap' = r.cache.itemMap
           /\ itemList' = r.cache.itemList
           /\ capacity' = r.cache.capacity
           /\ cacheRet' = CacheCall("Remove", r.err, r.item, r.exists)
           /\ callEnd' = r.end
           /\ recency' = only(recency, DOMAIN r.cache.itemMap)
    /\ mu' = unlocked
    /\ running' = [running EXCEPT ![g] = idle]
    /\ UNCHANGED okPuts
    /\ UNCHANGED <<treeVars, treapVars, skipVars>>

\* Get by a goroutine that holds the lock for reading, up to and including
\* list.Remove(target) in RotateFront: the lookup in the map, the return when
\* the id is not cached or the node has no prev, with the deferred
\* cache.mu.RUnlock(), and else the removal of the node from the list
GetLookup(g) ==
    /\ callEnd = Returns
    /\ running[g].op = "Get"
    /\ running[g].pc = "locked"
    /\ LET id == running[g].id
           target == itemMap[id]
       IN  IF id \notin DOMAIN itemMap THEN
               /\ cacheRet' = CacheCall("Get", ErrNil, 0, FALSE)
               /\ mu' = [mu EXCEPT !.readers = @ \ {g}]
               /\ running' = [running EXCEPT ![g] = idle]
               /\ UNCHANGED <<itemList, recency>>
           ELSE IF itemList.nodes[target].prev = NIL THEN
               /\ cacheRet' = CacheCall("Get", ErrNil, itemList.nodes[target].item, TRUE)
               /\ mu' = [mu EXCEPT !.readers = @ \ {g}]
               /\ running' = [running EXCEPT ![g] = idle]
               /\ recency' = <<id>> \o only(recency, Ids \ {id})
               /\ UNCHANGED itemList
           ELSE
               /\ itemList' = listRemove(itemList, target).list
               /\ running' = [running EXCEPT ![g] = Running("Get", id, "removed", target)]
               /\ UNCHANGED <<cacheRet, mu, recency>>
    /\ UNCHANGED <<itemMap, capacity, callEnd, okPuts>>
    /\ UNCHANGED <<treeVars, treapVars, skipVars>>

\* the rest of Get: list.Prepend(target) in RotateFront, item = target.item,
\* the return and the deferred cache.mu.RUnlock()
GetPrepend(g) ==
    /\ callEnd = Returns
    /\ running[g].op = "Get"
    /\ running[g].pc = "removed"
    /\ itemList' = Prepend(itemList, running[g].target)
    /\ cacheRet' = CacheCall("Get", ErrNil, itemList.nodes[running[g].target].item, TRUE)
    /\ recency' = <<running[g].id>> \o only(recency, Ids \ {running[g].id})
    /\ mu' = [mu EXCEPT !.readers = @ \ {g}]
    /\ running' = [running EXCEPT ![g] = idle]
    /\ UNCHANGED <<itemMap, capacity, callEnd, okPuts>>
    /\ UNCHANGED <<treeVars, treapVars, skipVars>>

\* goroutines that call Put, Get and Remove on one cache
NextConcurrent ==
    \/ \E g \in Goroutines : \E op \in {"Put", "Remove"} : \E id \in Ids : Lock(g, op, id)
    \/ \E g \in Goroutines : \E id \in Ids : RLock(g, id)
    \/ \E g \in Goroutines : PutBody(g)
    \/ \E g \in Goroutines : RemoveBody(g)
    \/ \E g \in Goroutines : GetLookup(g)
    \/ \E g \in Goroutines : GetPrepend(g)

SpecConcurrent == InitCache /\ [][NextConcurrent]_vars

\* ----- the calls on the treap --------------------------------------------
\* the treap the variables hold
TheTreap == Treap(treapHeap, treapRoot)

\* t.Insert(val), with priority what the generator returns if it is asked
TreapInsertCall(val, priority) ==
    /\ treapRet.err # "panic"
    /\ \E i \in TreapIds : treapHeap[i] = unusedTreapNode
    /\ \E r \in {TreapInsert(TheTreap, val, priority)} :
           /\ treapHeap' = r.t.h
           /\ treapRoot' = r.t.root
           /\ treapRet' = Call("Insert", IF r.panic THEN "panic" ELSE r.err)
    /\ UNCHANGED <<treeVars, cacheVars, skipVars>>

NextTreap == \E val \in TreapVals : \E priority \in Priorities : TreapInsertCall(val, priority)

SpecTreap == Init /\ [][NextTreap]_vars

\* ----- the calls on the skiplist -----------------------------------------
\* the skiplist the variables hold
TheSkiplist == Skiplist(skipNodes, skipRoot, skipR)

\* the values the list holds, in the order of the next[0] pointers from p on
RECURSIVE valuesFrom(_, _)
valuesFrom(nodes, p) ==
    IF p = NIL THEN <<>>
    ELSE <<nodes[p].value>> \o valuesFrom(nodes, nodes[p].next[1])

\* sl.Insert(n), with hdrSize what the generator returns if it is asked
SkipInsertCall(n, hdrSize) ==
    /\ Len(valuesFrom(skipNodes, skipNodes[skipRoot].next[1])) < MaxSkipNodes
    /\ \E r \in {skipInsert(TheSkiplist, n, hdrSize)} :
           /\ skipNodes' = skipCollect(r.sl).nodes
           /\ skipRet' = SkipCall("Insert", r.err, r.value)
           /\ stored' = IF r.err = ErrNil THEN stored \cup {n} ELSE stored
    /\ UNCHANGED skipR
    /\ UNCHANGED <<treeVars, cacheVars, treapVars>>

\* sl.Delete(n)
SkipDeleteCall(n) ==
    /\ \E r \in {skipDelete(TheSkiplist, n)} :
           /\ skipNodes' = skipCollect(r.sl).nodes
           /\ skipRet' = SkipCall("Delete", r.err, r.value)
           /\ stored' = IF r.err = ErrNil THEN stored \ {n} ELSE stored
    /\ UNCHANGED skipR
    /\ UNCHANGED <<treeVars, cacheVars, treapVars>>

\* sl.Get(n)
SkipGetCall(n) ==
    /\ \E r \in {skipGet(TheSkiplist, n)} :
           /\ skipNodes' = skipCollect(r.sl).nodes
           /\ skipRet' = SkipCall("Get", r.err, r.value)
    /\ UNCHANGED <<skipR, stored>>
    /\ UNCHANGED <<treeVars, cacheVars, treapVars>>

NextSkiplist ==
    \/ \E n \in SkipVals : \E hdrSize \in 1..skipR : SkipInsertCall(n, hdrSize)
    \/ \E n \in SkipVals : SkipDeleteCall(n)
    \/ \E n \in SkipVals : SkipGetCall(n)

\* sl := NewSkiplist(r) with r >= 1, beside the others, which are not used
InitSkiplist ==
    /\ NewTree /\ NewCache(1) /\ NewTreap
    /\ \E r \in Ranks : NewSkiplist(r)

SpecSkiplist == InitSkiplist /\ [][NextSkiplist]_vars

\* ----- measures of the tree as it is -------------------------------------
\* the longest downward path from p to a leaf, -1 for an absent node
RECURSIVE realHeight(_, _)
realHeight(h, p) ==
    IF p = NIL THEN -1
    ELSE 1 + max(realHeight(h, h[p].left), realHeight(h, h[p].right))

\* the nodes of the tree
Live == Reach(heap, root)

\* the keys stored under p
keysOf(h, p) == {h[x].data : x \in Reach(h, p)}

\* how many nodes under p hold key d
keyCount(h, p, d) == Cardinality({x \in Reach(h, p) : h[x].data = d})

\* this step is a call that returned nil
InsertedOk == okInserts' = okInserts + 1
DeletedOk == okDeletes' = okDeletes + 1

\* ----- claims ------------------------------------------------------------

\* C1: after any sequence of Insert and Delete calls, at every node the
\* heights of the two subtrees (longest downward path, absent child -1) differ
\* by at most one.
C1_Balanced ==
    \A p \in Live :
        LET d == realHeight(heap, heap[p].left) - realHeight(heap, heap[p].right)
        IN  -1 <= d /\ d <= 1

\* C2: after any sequence of Insert and Delete calls, every node's left subtree
\* holds only smaller keys and its right subtree only larger keys, and the
\* in-order traversal lists the keys in strictly increasing order.
C2_BstOrder ==
    /\ \A p \in Live :
        /\ \A d \in keysOf(heap, heap[p].left) : d < heap[p].data
        /\ \A d \in keysOf(heap, heap[p].right) : d > heap[p].data
    /\ LET keys == inorder(heap, root)
       IN  \A i \in 1..(Len(keys) - 1) : keys[i] < keys[i + 1]

\* C3: after every completed Insert or Delete, every node's stored height is
\* 1 + max(height(left), height(right)), an absent child counting as -1.
C3_StoredHeights ==
    \A p \in Live :
        heap[p].height = 1 + max(height(heap, heap[p].left), height(heap, heap[p].right))

\* C4: a Delete that returns nil decreases nodeCount by exactly one.
C4_DeleteDecrements ==
    [][DeletedOk => nodeCount' = nodeCount - 1]_vars

\* C5: Find(k) returns a node holding k exactly when k has been successfully
\* inserted and not successfully deleted since: a successful Insert(k) makes k
\* found, a successful Delete(k) makes it not found, and no other call changes
\* whether k is found.
C5_FindIsMembership ==
    [][\A k \in AllKeys :
          IF InsertedOk /\ InsertCall(k)
          THEN find(heap', root', k) # NIL /\ heap'[find(heap', root', k)].data = k
          ELSE IF DeletedOk /\ DeleteCall(k)
          THEN find(heap', root', k) = NIL
          ELSE (find(heap', root', k) = NIL) <=> (find(heap, root, k) = NIL)]_vars

\* C6: after any sequence of Insert and Delete calls, nodeCount is the number
\* of nodes reachable from root.
C6_CountIsSize == nodeCount = Cardinality(Live)

\* C7: after k Insert calls and m Delete calls that returned nil, nodeCount is
\* k - m.
C7_CountIsNet == nodeCount = okInserts - okDeletes

\* C8: Insert of a key that is already in the tree returns ErrDuplicateItem
\* and leaves the structure, the keys, the stored heights and nodeCount as
\* they were.
C8_DuplicateInsert ==
    [][\A n \in AllKeys :
          (ret'.op = "Insert" /\ n \in keysOf(heap, root) /\ InsertCall(n)) =>
              /\ ret'.err = ErrDuplicateItem
              /\ ~panicked'
              /\ UNCHANGED <<heap, root, nodeCount>>]_vars

\* a duplicate was refused by a tree of three levels
C8_Witness ==
    ret = Call("Insert", ErrDuplicateItem) /\ realHeight(heap, root) >= 2

\* C9: Delete of a key that is not in the tree, the empty tree included,
\* returns ErrItemNotFound and leaves the structure, the keys, the stored
\* heights and nodeCount as they were.
C9_DeleteAbsent ==
    [][\A n \in AllKeys :
          (ret'.op = "Delete" /\ n \notin keysOf(heap, root) /\ DeleteCall(n)) =>
              /\ ret'.err = ErrItemNotFound
              /\ ~panicked'
              /\ UNCHANGED <<heap, root, nodeCount>>]_vars

\* an absent key was refused by a tree of three levels
C9_Witness ==
    ret = Call("Delete", ErrItemNotFound) /\ realHeight(heap, root) >= 2

\* C10: Insert of a key that is not in the tree returns nil, increases
\* nodeCount by exactly one, makes the key findable and keeps every key that
\* was stored, as often as it was stored.
C10_InsertNew ==
    [][\A n \in AllKeys :
          (ret'.op = "Insert" /\ n \notin keysOf(heap, root) /\ InsertCall(n)) =>
              /\ ret'.err = ErrNil
              /\ ~panicked'
              /\ nodeCount' = nodeCount + 1
              /\ find(heap', root', n) # NIL
              /\ heap'[find(heap', root', n)].data = n
              /\ keyCount(heap', root', n) = 1
              /\ \A d \in AllKeys \ {n} : keyCount(heap', root', d) = keyCount(heap, root, d)]_vars

\* a new key went into a tree of three levels
C10_Witness ==
    ret = Call("Insert", ErrNil) /\ realHeight(heap, root) >= 2 /\ okInserts >= 5

\* ----- deletion, case by case --------------------------------------------
\* the node Delete(n) stops at, and its shape
target(n) == find(heap, root, n)
isLeaf(h, p) == p # NIL /\ h[p].left = NIL /\ h[p].right = NIL
hasTwoChildren(h, p) == p # NIL /\ h[p].left # NIL /\ h[p].right # NIL
hasOneChild(h, p) == p # NIL /\ ~isLeaf(h, p) /\ ~hasTwoChildren(h, p)
onlyChild(h, p) == IF h[p].left # NIL THEN h[p].left ELSE h[p].right

\* the pointer variable through which delete reaches the node it stops at for
\* n: &t.root, or the left or right field of the node's parent
RECURSIVE slotOf(_, _, _)
slotOf(st, node, n) ==
    LET p == Deref(st, node)
    IN  IF p = NIL \/ st.h[p].data = n THEN node
        ELSE IF n < st.h[p].data THEN slotOf(st, LeftOf(p), n)
        ELSE slotOf(st, RightOf(p), n)

\* the tree t.Delete(n) leaves behind, cells where they were
afterDelete(n) == delete(Tree, RootSlot, n).st

\* t.Insert(i), ..., t.Insert(n) and t.Delete(i), ..., t.Delete(n), as the loops
\* of the tests run them
RECURSIVE build(_, _, _)
build(st, i, n) == IF i > n THEN st ELSE build(insert(st, RootSlot, i).st, i + 1, n)

RECURSIVE drain(_, _, _)
drain(st, i, n) == IF i > n THEN st ELSE drain(delete(st, RootSlot, i).st, i + 1, n)

\* C11: for any reachable tree and any key k not in it, Insert(k) followed by
\* Delete(k) gives a tree with the in-order key sequence it had before.
C11_InsertDeleteRoundTrip ==
    \A k \in AllKeys :
        (k \notin keysOf(heap, root) /\ Cardinality(Live) < Cardinality(NodeIds)) =>
            LET ins == insert(Tree, RootSlot, k)
                del == delete(ins.st, RootSlot, k)
            IN  inorder(del.st.h, del.st.root) = inorder(heap, root)

\* C12: building a tree from n ascending keys and deleting the n keys in
\* ascending order leaves nodeCount 0 and no root, and doing both again on the
\* emptied tree ends the same way.
C12_BuildAndDrain ==
    (okDeletes = 0 /\ okInserts >= 1) =>
        LET once == drain(Tree, 1, okInserts)
        IN  /\ once.nodeCount = 0
            /\ once.root = NIL
            /\ LET twice == drain(build(once, 1, okInserts), 1, okInserts)
               IN  twice.nodeCount = 0 /\ twice.root = NIL

\* C13: Delete of the key of a node with no children removes that node: the
\* parent's child slot that held it, or the root reference when it is the root,
\* becomes empty, and the key is no longer found.
C13_DeleteLeaf ==
    [][\A n \in AllKeys :
          (ret'.op = "Delete" /\ isLeaf(heap, target(n)) /\ DeleteCall(n)) =>
              /\ Deref(afterDelete(n), slotOf(Tree, RootSlot, n)) = NIL
              /\ find(heap', root', n) = NIL]_vars

\* C14: Delete of the key of a node with two children keeps that node where it
\* is, overwrites its key with the smallest key of its right subtree and
\* removes the node that held that key: afterwards the successor key is stored
\* exactly once, the deleted key is gone and the tree has one node less.
C14_DeleteTwoChildren ==
    [][\A n \in AllKeys :
          (ret'.op = "Delete" /\ hasTwoChildren(heap, target(n)) /\ DeleteCall(n)) =>
              LET succ == heap[findMin(heap, heap[target(n)].right)].data
                  after == afterDelete(n)
              IN  /\ Deref(after, slotOf(Tree, RootSlot, n)) = target(n)
                  /\ after.h[target(n)].data = succ
                  /\ keyCount(heap', root', succ) = 1
                  /\ find(heap', root', n) = NIL
                  /\ Cardinality(Reach(heap', root')) = Cardinality(Live) - 1]_vars

RECURSIVE minHeight(_)
minHeight(n) == IF n < 2 THEN 0 ELSE 1 + minHeight(n \div 2)

\* ceil(1.44 * log2(n + 2) - 1.328) <= H exactly when
\* n + 2 <= 2^((H + 1.328) / 1.44); the right-hand sides, rounded down, for
\* H = 0, 1, ..., 6 (1.89, 3.06, 4.96, 8.03, 12.99, 21.03, 34.03)
heightCeilings == <<1, 3, 4, 8, 12, 21, 34>>

\* maxHeight := math.Ceil(1.44*math.Log2(float64(n)+2.0) - 1.328), n <= 32
maxHeight(n) ==
    CHOOSE H \in 0..(Len(heightCeilings) - 1) :
        /\ n + 2 <= heightCeilings[H + 1]
        /\ \A G \in 0..(H - 1) : n + 2 > heightCeilings[G + 1]

C17_ProgressiveBuild ==
    [][(InsertedOk /\ ScenarioInsert) =>
          /\ FormatDFS(heap', root', PreOrder) = tcs[okInserts'].expectedPreOrder
          /\ FormatDFS(heap', root', PostOrder) = tcs[okInserts'].expectedPostOrder]_vars

\* the eighth key went in
C17_Witness ==
    /\ ret = Call("Insert", ErrNil)
    /\ okInserts = Len(tcs)
    /\ okDeletes = 0
    /\ FormatDFS(heap, root, InOrder) = "1 2 3 4 5 6 7 8 "

cached == DOMAIN itemMap

\* C19: a Put of a new id into a cache that holds capacity items returns nil
\* and evicts exactly one item, the one whose latest Put or successful Get is
\* the oldest; Get then still returns every other item that was cached.
C19_EvictsLeastRecentlyUsed ==
    [][\A id \in Ids :
          (cacheRet'.op = "Put" /\ id \notin cached /\ Cardinality(cached) = capacity
             /\ PutCall(id)) =>
              LET lru == recency[Len(recency)]
              IN  /\ callEnd' = Returns
                  /\ cacheRet'.err = ErrNil
                  /\ DOMAIN itemMap' = (cached \cup {id}) \ {lru}
                  /\ \A k \in cached \ {lru} :
                        LET got == get(Cache(itemMap', itemList', capacity'), k)
                        IN  got.exists /\ got.item = k]_vars

\* C20: Get(id) of a cached id returns the item with that id and exists ==
\* true, and leaves the item at the head of the list, with the list's count and
\* the cached ids as they were; Get of an uncached id returns exists == false
\* and no item.
C20_GetRotatesToFront ==
    [][\A id \in Ids :
          (cacheRet'.op = "Get" /\ GetCall(id)) =>
              IF id \in cached
              THEN /\ callEnd' = Returns
                   /\ cacheRet'.exists
                   /\ cacheRet'.item = id
                   /\ itemList'.head # NIL
                   /\ itemList'.nodes[itemList'.head].item = id
                   /\ itemList'.count = itemList.count
                   /\ DOMAIN itemMap' = cached
              ELSE ~cacheRet'.exists /\ cacheRet'.item = 0]_vars

\* a Get has found its item behind an item that was Put after it, and has
\* rotated it to the head of a full list
C20_Witness ==
    /\ cacheRet.op = "Get"
    /\ cacheRet.exists
    /\ itemList.count = MaxCapacity
    /\ itemList.head # NIL
    /\ itemList.nodes[itemList.head].item = cacheRet.item
    /\ itemList.nodes[itemList.head].next > itemList.head

C22_Remove ==
    [][\A id \in Ids :
          (cacheRet'.op = "Remove" /\ RemoveCall(id)) =>
              LET after == Cache(itemMap', itemList', capacity')
              IN  IF id \in cached
                  THEN /\ callEnd' = Returns
                       /\ cacheRet'.err = ErrNil
                       /\ ~get(after, id).exists
                       /\ remove(after, id).err = CacheErrItemNotFound
                       /\ \A k \in cached \ {id} :
                             LET got == get(after, k)
                             IN  got.exists /\ got.item = k
                  ELSE /\ callEnd' = Returns
                       /\ cacheRet'.err = CacheErrItemNotFound
                       /\ after = TheCache]_vars

\* a Remove has taken out one of two cached items: the other one is still
\* cached and the list counts one item
C22_Witness ==
    /\ cacheRet = CacheCall("Remove", ErrNil, 0, FALSE)
    /\ Cardinality(cached) = 1
    /\ itemList.count = 1
    /\ okPuts >= 2

\* C23: Put of an item whose id is cached returns ErrDuplicateItem and leaves
\* the cache as it was: the same map, so nothing is evicted, and the same
\* list, so the order of the items is the same.
C23_DuplicatePut ==
    [][\A id \in Ids :
          (cacheRet'.op = "Put" /\ id \in cached /\ PutCall(id)) =>
              /\ callEnd' = Returns
              /\ cacheRet'.err = CacheErrDuplicateItem
              /\ Cache(itemMap', itemList', capacity') = TheCache
              /\ recency' = recency]_vars

\* a Put has been refused as a duplicate by a cache that holds two items
C23_Witness ==
    /\ cacheRet = CacheCall("Put", CacheErrDuplicateItem, 0, FALSE)
    /\ Cardinality(cached) >= 2
    /\ itemList.count >= 2

\* C24: after every sequence of Treap.Insert calls, whatever priorities are
\* generated, the treap is BST-ordered on val and min-heap-ordered on
\* priority: no node has a priority greater than that of one of its children.
C24_TreapOrdered ==
    /\ bstOrdered(treapHeap, treapRoot)
    /\ isHeap(treapHeap, treapRoot)

\* C25: in every state of a Skiplist reached by Insert, Delete and Get calls
\* with header sizes in 1..r, Get(v) returns v and nil if v was inserted and
\* not deleted since, and ErrValueNotFound otherwise; Insert of a stored value
\* returns ErrDuplicateValue, Delete and Get of an absent value return
\* ErrValueNotFound, and each of the three leaves the list as it was; the
\* other Insert and Delete calls return nil.
C25_SkiplistIsASet ==
    /\ [](\A v \in SkipVals :
             skipGet(TheSkiplist, v) =
                 IF v \in stored THEN SkipResult(TheSkiplist, v, ErrNil)
                 ELSE SkipResult(TheSkiplist, 0, ErrValueNotFound))
    /\ [][\A v \in SkipVals :
             /\ (skipRet'.op = "Insert" /\ \E hdrSize \in 1..skipR : SkipInsertCall(v, hdrSize)) =>
                    IF v \in stored
                    THEN skipRet'.err = ErrDuplicateValue /\ skipNodes' = skipNodes
                    ELSE skipRet'.err = ErrNil
             /\ (skipRet'.op = "Delete" /\ SkipDeleteCall(v)) =>
                    IF v \in stored
                    THEN skipRet'.err = ErrNil
                    ELSE skipRet'.err = ErrValueNotFound /\ skipNodes' = skipNodes
             /\ (skipRet'.op = "Get" /\ SkipGetCall(v)) =>
                    /\ skipNodes' = skipNodes
                    /\ skipRet'.err = IF v \in stored THEN ErrNil ELSE ErrValueNotFound]_vars

\* a Delete has returned nil on a full list in which a node of the highest
\* rank is threaded, and the other values are still stored
C25_Witness ==
    /\ skipRet = SkipCall("Delete", ErrNil, 0)
    /\ skipR = MaxR
    /\ Cardinality(stored) = MaxSkipNodes - 1
    /\ skipNodes[skipRoot].next[MaxR] # NIL
    /\ Len(valuesFrom(skipNodes, skipNodes[skipRoot].next[1])) = MaxSkipNodes - 1

\* ----- the balance calls of one Insert or Delete -------------------------
\* t.balance(node) as it is invoked: the tree at that moment and the slot
BalanceCall(st, node) == [st |-> st, node |-> node]

\* the invocations of t.balance made by t.insert(node, n), in the order they
\* are made: those of the recursive call, then the one of this level
RECURSIVE insertBalances(_, _, _)
insertBalances(st, node, n) ==
    LET p == Deref(st, node)
    IN  IF p = NIL \/ n = st.h[p].data THEN <<>>
        ELSE LET below == IF n < st.h[p].data THEN LeftOf(p) ELSE RightOf(p)
                 r == insert(st, below, n)
             IN  IF r.panic \/ r.err # ErrNil THEN insertBalances(st, below, n)
                 ELSE insertBalances(st, below, n)
                          \o <<BalanceCall(setHeight(r.st, Deref(r.st, node)), node)>>

\* the invocations of t.balance made by t.delete(node, n), in the order they
\* are made
RECURSIVE deleteBalances(_, _, _)
deleteBalances(st, node, n) ==
    LET p == Deref(st, node)
    IN  IF p = NIL THEN <<>>
        ELSE IF n # st.h[p].data THEN
            LET below == IF n < st.h[p].data THEN LeftOf(p) ELSE RightOf(p)
                r == delete(st, below, n)
            IN  IF r.panic \/ r.err # ErrNil THEN deleteBalances(st, below, n)
                ELSE deleteBalances(st, below, n) \o <<BalanceCall(r.st, node)>>
        ELSE IF st.h[p].left # NIL /\ st.h[p].right # NIL THEN
            LET s1 == [st EXCEPT !.h[p].data = st.h[findMin(st.h, st.h[p].right)].data]
                r2 == delete(s1, RightOf(p), s1.h[p].data)
            IN  IF r2.panic THEN deleteBalances(s1, RightOf(p), s1.h[p].data)
                ELSE deleteBalances(s1, RightOf(p), s1.h[p].data)
                         \o <<BalanceCall(r2.st, node)>>
        ELSE <<BalanceCall(delete(st, node, n).st, node)>>

\* the heights balance reads at an invocation
leftHeightAt(c) == height(c.st.h, c.st.h[Deref(c.st, c.node)].left)
rightHeightAt(c) == height(c.st.h, c.st.h[Deref(c.st, c.node)].right)

\* the rotation an invocation of balance must make by the rule "single when
\* the outer grandchild is at least as tall as the inner one, double when the
\* inner one is strictly taller", and none at a node that is not heavy
byTheRule(c) ==
    LET h == c.st.h
        p == Deref(c.st, c.node)
    IN  IF leftHeightAt(c) - rightHeightAt(c) > allowedImbalance THEN
            IF height(h, h[h[p].left].left) >= height(h, h[h[p].left].right)
            THEN rotateWithLeftChild(c.st, c.node)
            ELSE doubleRotateWithLeftChild(c.st, c.node)
        ELSE IF rightHeightAt(c) - leftHeightAt(c) > allowedImbalance THEN
            IF height(h, h[h[p].right].right) >= height(h, h[h[p].right].left)
            THEN rotateWithRightChild(c.st, c.node)
            ELSE doubleRotateWithRightChild(c.st, c.node)
        ELSE Result(c.st, ErrNil, FALSE)

\* the invocations of balance made by the call the step is
balancesOf(op, n) ==
    IF op = "Insert" THEN insertBalances(Tree, RootSlot, n)
    ELSE deleteBalances(Tree, RootSlot, n)

\* C26: at a left-heavy node balance makes the single right rotation whenever
\* the left child's left subtree is at least as tall as its right subtree, and
\* the double rotation only when the right one is strictly taller; the mirror
\* image at a right-heavy node.  The heights are the stored ones, which
\* balance reads.
C26_OuterCaseSingleRotation ==
    [][\A n \in AllKeys :
          /\ (ret'.op = "Insert" /\ InsertCall(n)) =>
                 \A i \in DOMAIN balancesOf("Insert", n) :
                    LET c == balancesOf("Insert", n)[i]
                    IN  balance(c.st, c.node) = byTheRule(c)
          /\ (ret'.op = "Delete" /\ DeleteCall(n)) =>
                 \A i \in DOMAIN balancesOf("Delete", n) :
                    LET c == balancesOf("Delete", n)[i]
                    IN  balance(c.st, c.node) = byTheRule(c)]_vars

\* C27: a Delete(k) that returns nil detaches exactly one node: the nodes
\* reachable from root after the call are those reachable before it less one.
C27_DeleteDetachesOneNode ==
    [][\A n \in AllKeys :
          (ret'.op = "Delete" /\ ret'.err = ErrNil /\ ~panicked' /\ DeleteCall(n)) =>
              \E x \in Live :
                  Reach(afterDelete(n).h, afterDelete(n).root) = Live \ {x}]_vars

\* the tree as the two-children branch has it when it calls delete on the
\* right subtree: the successor's key copied into the node found for n
withSuccessorKey(n) ==
    [Tree EXCEPT !.h[target(n)].data = heap[findMin(heap, heap[target(n)].right)].data]

\* C28: in the two-children case of Delete the recursive delete on the right
\* subtree stops at the successor node, the one findMin returned; that node
\* has no left child, so the branch it is handled by is not the two-children
\* one; and the call returns nil, not ErrItemNotFound, without a panic.
C28_SuccessorIsFound ==
    [][\A n \in AllKeys :
          (ret'.op = "Delete" /\ hasTwoChildren(heap, target(n)) /\ DeleteCall(n)) =>
              LET p == target(n)
                  successor == findMin(heap, heap[p].right)
                  s1 == withSuccessorKey(n)
                  inner == delete(s1, RightOf(p), s1.h[p].data)
              IN  /\ find(s1.h, s1.h[p].right, s1.h[p].data) = successor
                  /\ s1.h[successor].left = NIL
                  /\ ~hasTwoChildren(s1.h, successor)
                  /\ inner.err = ErrNil
                  /\ ~inner.panic]_vars

\* there is a cell left for Insert to allocate, and no call has panicked
canCall == ~panicked /\ Cardinality(Live) < Cardinality(NodeIds)

\* C29: at every invocation of balance made by an Insert or a Delete, whatever
\* the reachable tree and the key, the heights of the node's two subtrees,
\* stored and real, differ by at most 2.
C29_ImbalanceAtMostTwo ==
    canCall =>
        \A n \in AllKeys \cup WideKeys : \A op \in {"Insert", "Delete"} :
            \E calls \in {balancesOf(op, n)} :
                \A i \in DOMAIN calls :
                    LET c == calls[i]
                        p == Deref(c.st, c.node)
                        real == realHeight(c.st.h, c.st.h[p].left)
                                    - realHeight(c.st.h, c.st.h[p].right)
                        seen == leftHeightAt(c) - rightHeightAt(c)
                    IN  /\ seen \in -2..2
                        /\ real \in -2..2

\* the invocations of balance in calls that rotate
rotating(calls) == {i \in DOMAIN calls : balance(calls[i].st, calls[i].node).st # calls[i].st}

\* C30: in an Insert that returns nil, whatever the reachable tree and the
\* key, at most one of the balance calls made on the way back to the root
\* rotates.
C30_OneRotationPerInsert ==
    canCall =>
        \A n \in AllKeys \cup WideKeys :
            \E r \in {insert(Tree, RootSlot, n)} :
                (r.err = ErrNil /\ ~r.panic) =>
                    Cardinality(rotating(insertBalances(Tree, RootSlot, n))) <= 1

\* ----- the rotations, one by one -----------------------------------------
\* the pointer variables of the tree: &t.root and every node's two fields
Slots == {RootSlot} \cup {LeftOf(p) : p \in Live} \cup {RightOf(p) : p \in Live}

\* the result r of a rotation at slot s has not panicked, and the subtree
\* under s has the in-order keys and the nodes it had; but for the pointer in
\* s itself, the cells other than the ones in moved are as they were
keepsSubtree(r, s, moved) ==
    /\ ~r.panic
    /\ inorder(r.st.h, Deref(r.st, s)) = inorder(heap, Deref(Tree, s))
    /\ Reach(r.st.h, Deref(r.st, s)) = Reach(heap, Deref(Tree, s))
    /\ \A x \in NodeIds \ moved : Store(r.st, s, Deref(Tree, s)).h[x] = heap[x]
    /\ r.st.nodeCount = nodeCount
    /\ s # RootSlot => r.st.root = root

\* C31: each of the four rotation routines, applied at a node that has the
\* child (for a double rotation the grandchild) it promotes, keeps the in-order
\* key sequence and the set of nodes of the subtree; the promoted node becomes
\* the subtree's root, the demoted nodes become its children and take over its
\* inner subtrees, and nothing else changes.
C31_RotationsPreserveOrder ==
    \A s \in Slots :
        LET k2 == Deref(Tree, s)
            L == heap[k2].left
            R == heap[k2].right
        IN  k2 # NIL =>
            /\ L # NIL =>
                  \E r \in {rotateWithLeftChild(Tree, s)} :
                      /\ keepsSubtree(r, s, {k2, L})
                      /\ Deref(r.st, s) = L
                      /\ r.st.h[L].left = heap[L].left
                      /\ r.st.h[L].right = k2
                      /\ r.st.h[k2].left = heap[L].right
                      /\ r.st.h[k2].right = R
            /\ R # NIL =>
                  \E r \in {rotateWithRightChild(Tree, s)} :
                      /\ keepsSubtree(r, s, {k2, R})
                      /\ Deref(r.st, s) = R
                      /\ r.st.h[R].right = heap[R].right
                      /\ r.st.h[R].left = k2
                      /\ r.st.h[k2].right = heap[R].left
                      /\ r.st.h[k2].left = L
            /\ (L # NIL /\ heap[L].right # NIL) =>
                  \E r \in {doubleRotateWithLeftChild(Tree, s)} :
                      LET G == heap[L].right
                      IN  /\ keepsSubtree(r, s, {k2, L, G})
                          /\ Deref(r.st, s) = G
                          /\ r.st.h[G].left = L
                          /\ r.st.h[G].right = k2
                          /\ r.st.h[L].left = heap[L].left
                          /\ r.st.h[L].right = heap[G].left
                          /\ r.st.h[k2].left = heap[G].right
                          /\ r.st.h[k2].right = R
            /\ (R # NIL /\ heap[R].left # NIL) =>
                  \E r \in {doubleRotateWithRightChild(Tree, s)} :
                      LET G == heap[R].left
                      IN  /\ keepsSubtree(r, s, {k2, R, G})
                          /\ Deref(r.st, s) = G
                          /\ r.st.h[G].right = R
                          /\ r.st.h[G].left = k2
                          /\ r.st.h[R].right = heap[R].right
                          /\ r.st.h[R].left = heap[G].right
                          /\ r.st.h[k2].right = heap[G].left
                          /\ r.st.h[k2].left = L

\* an Insert has returned nil on a tree where all four routines apply: a node
\* has a left child with a right child, and a node has a right child with a
\* left child
C31_Witness ==
    /\ ret = Call("Insert", ErrNil)
    /\ \E p \in Live : heap[p].left # NIL /\ heap[heap[p].left].right # NIL
    /\ \E p \in Live : heap[p].right # NIL /\ heap[heap[p].right].left # NIL

\* every node under the pointers ps stores the length of its longest path down
consistentBelow(h, ps) ==
    \A p \in ps : \A x \in Reach(h, p) : h[x].height = realHeight(h, x)

\* the stored height of p is 1 + max of the stored heights of its children,
\* and is the length of its longest path down
heightSet(h, p) ==
    /\ h[p].height = 1 + max(height(h, h[p].left), height(h, h[p].right))
    /\ h[p].height = realHeight(h, p)

\* C32: after rotateWithLeftChild or rotateWithRightChild at a node whose
\* promoted child exists and where every node below the two rotated nodes
\* stores a consistent height, whatever the two rotated nodes stored before,
\* both of them store 1 + max(child heights).
C32_RotationSetsHeights ==
    \A s \in Slots :
        LET k2 == Deref(Tree, s)
            L == heap[k2].left
            R == heap[k2].right
        IN  k2 # NIL =>
            /\ (L # NIL /\ consistentBelow(heap, {heap[L].left, heap[L].right, R})) =>
                  \E r \in {rotateWithLeftChild(Tree, s)} :
                      heightSet(r.st.h, k2) /\ heightSet(r.st.h, L)
            /\ (R # NIL /\ consistentBelow(heap, {heap[R].left, heap[R].right, L})) =>
                  \E r \in {rotateWithRightChild(Tree, s)} :
                      heightSet(r.st.h, k2) /\ heightSet(r.st.h, R)

\* an Insert has returned nil on a tree of three levels that stores consistent
\* heights everywhere and whose root has both children, one of them with a
\* subtree to hand over
C32_Witness ==
    /\ ret = Call("Insert", ErrNil)
    /\ consistentBelow(heap, {root})
    /\ hasTwoChildren(heap, root)
    /\ heap[heap[root].right].left # NIL
    /\ heap[heap[root].left].right # NIL

\* ----- ownership --------------------------------------------------------
\* the pointer fields of the nodes in live that refer to x
referrers(h, live, x) ==
    {LeftOf(p) : p \in {q \in live : h[q].left = x}}
        \cup {RightOf(p) : p \in {q \in live : h[q].right = x}}

\* the nodes reachable from rt form a tree: one referrer for every node but
\* the root, none for the root, and no node below itself
strictTree(h, rt) ==
    \E live \in {Reach(h, rt)} :
        \A x \in live :
            /\ Cardinality(referrers(h, live, x)) = IF x = rt THEN 0 ELSE 1
            /\ x \notin Reach(h, h[x].left) \cup Reach(h, h[x].right)

\* C33: after any sequence of Insert and Delete calls the nodes reachable from
\* root form a strict tree (every node but the root is the child of exactly
\* one node, the root of none, no node is its own descendant), and so they do
\* after whichever call comes next, as that call leaves the cells.
C33_StrictTree ==
    /\ strictTree(heap, root)
    /\ canCall =>
          \A n \in AllKeys :
              /\ \E r \in {insert(Tree, RootSlot, n)} : strictTree(r.st.h, r.st.root)
              /\ \E r \in {delete(Tree, RootSlot, n)} : strictTree(r.st.h, r.st.root)

\* a Delete has returned nil after rotations, and left a tree of three levels
C33_Witness ==
    /\ ret = Call("Delete", ErrNil)
    /\ okInserts >= 5
    /\ realHeight(heap, root) >= 2
    /\ Cardinality(Live) >= 4

\* ----- the calls that only read -----------------------------------------
\* C34: Find and FormatDFS leave the tree as it was: the root reference, every
\* node's key, stored height and child links, and nodeCount are the same after
\* the call as before, whether or not the key is found.
C34_ReadsChangeNothing ==
    [][/\ \A n \in AllKeys :
             (ret'.op = "Find" /\ FindCall(n)) =>
                 /\ UNCHANGED <<heap, root, nodeCount>>
                 /\ ret'.value = find(heap, root, n)
       /\ \A order \in DFSOrders :
             (ret'.op = "FormatDFS" /\ FormatDFSCall(order)) =>
                 UNCHANGED <<heap, root, nodeCount>>]_vars

\* a Find has returned a node below the root of a tree that has gone through
\* a Delete
C34_Witness ==
    /\ ret.op = "Find"
    /\ ret.value # NIL
    /\ ret.value # root
    /\ okDeletes >= 1
    /\ Cardinality(Live) >= 4

\* ----- the stress test ---------------------------------------------------
\* C35: inserting the keys 0..2^k - 1 into an empty tree in ascending order,
\* or in descending order, never fails, and when the loop is through the root
\* stores the height k.
C35_SequentialHeight ==
    /\ ~panicked
    /\ ret.op = "Insert" => ret.err = ErrNil
    /\ okInserts = loopLen =>
          /\ root # NIL
          /\ nodeCount = loopLen
          /\ pow2(heap[root].height) = loopLen

\* the descending loop over the largest number of keys is through
C35_Witness ==
    /\ ret = Call("Insert", ErrNil)
    /\ loop.first > loop.last
    /\ okInserts = loopLen
    /\ loopLen >= 8

\* ----- the recency list as a data structure ------------------------------
\* the nodes met by following next from p, fuel steps at most
RECURSIVE nextChain(_, _, _)
nextChain(nodes, p, fuel) ==
    IF p = NIL \/ fuel = 0 THEN <<>>
    ELSE <<p>> \o nextChain(nodes, nodes[p].next, fuel - 1)

\* the nodes listed from the head; one more than there are cells when next
\* never reaches nil
listedNodes == nextChain(itemList.nodes, itemList.head, Cardinality(ListIds) + 1)

\* C36: after any sequence of Put, Get and Remove calls that have returned,
\* the recency list is a well-formed doubly linked list (head.prev == nil,
\* tail.next == nil, n.next.prev == n for every listed node, and following
\* next from head visits exactly count distinct nodes and ends at tail) and
\* the ids of the listed nodes are exactly the keys of itemMap.
C36_ListWellFormed ==
    callEnd = Returns =>
        \E chain \in {listedNodes} :
            /\ itemList.head # NIL => itemList.nodes[itemList.head].prev = NIL
            /\ itemList.tail # NIL => itemList.nodes[itemList.tail].next = NIL
            /\ \A i \in 1..(Len(chain) - 1) : itemList.nodes[chain[i + 1]].prev = chain[i]
            /\ Len(chain) = itemList.count
            /\ \A i, j \in DOMAIN chain : chain[i] = chain[j] => i = j
            /\ IF chain = <<>> THEN itemList.tail = NIL ELSE chain[Len(chain)] = itemList.tail
            /\ {itemList.nodes[chain[i]].item : i \in DOMAIN chain} = cached

\* C38: every Put call terminates in every cache state reachable by Put, Get
\* and Remove: the eviction loop that follows next from the node TrimRight
\* returned reaches nil.
C38_PutTerminates ==
    cacheRet.op = "Put" => callEnd # LoopsForever

\* ----- the chains of the skiplist ----------------------------------------
\* the nodes met by following next[rank] from p, fuel steps at most; a node
\* whose header has no entry of that rank ends the chain
RECURSIVE rankChain(_, _, _, _)
rankChain(nodes, p, rank, fuel) ==
    IF p = NIL \/ fuel = 0 THEN <<>>
    ELSE IF Len(nodes[p].next) < rank THEN <<p>>
    ELSE <<p>> \o rankChain(nodes, nodes[p].next[rank], rank, fuel - 1)

\* the chain of a rank from the sentinel, the sentinel left out
chainOf(rank) ==
    rankChain(skipNodes, skipNodes[skipRoot].next[rank], rank, Cardinality(SkipIds) + 1)

\* C39: after any sequence of Insert and Delete calls with any header sizes in
\* [1, r], the rank-0 chain from the sentinel visits the stored values in
\* strictly increasing order with no duplicates, and for every rank the chain
\* of that rank visits, in the same order, exactly the stored nodes whose
\* header has an entry of that rank, so that a deleted node is in no chain.
C39_ChainsAreOrdered ==
    \E bottom \in {chainOf(1)} :
        /\ \A i \in 1..(Len(bottom) - 1) :
               skipNodes[bottom[i]].value < skipNodes[bottom[i + 1]].value
        /\ {skipNodes[bottom[i]].value : i \in DOMAIN bottom} = stored
        /\ Len(bottom) = Cardinality(stored)
        /\ Len(skipNodes[skipRoot].next) = skipR
        /\ \A rank \in 1..skipR :
               chainOf(rank) =
                   SelectSeq(bottom, LAMBDA p : Len(skipNodes[p].next) >= rank)

\* a Delete has returned nil and left two values stored in a list of the
\* highest rank, one in a node of the full header size and one in a node of
\* header size 1
C39_Witness ==
    /\ skipRet = SkipCall("Delete", ErrNil, 0)
    /\ skipR = MaxR
    /\ Cardinality(stored) = 2
    /\ \E p, q \in SkipIds \ {skipRoot} :
           /\ skipNodes[p].value \in stored /\ Len(skipNodes[p].next) = MaxR
           /\ skipNodes[q].value \in stored /\ Len(skipNodes[q].next) = 1
           /\ skipNodes[p].value < skipNodes[q].value

\* ----- the cache under concurrent calls ----------------------------------
\* goroutine g is in a call at a point where the call changes the list or the
\* map: Put and Remove from their first statement on, Get between
\* list.Remove and list.Prepend
modifying(g) ==
    \/ running[g].op \in {"Put", "Remove"} /\ running[g].pc = "locked"
    \/ running[g].op = "Get" /\ running[g].pc = "removed"

\* C37: under any interleaving of Put, Get and Remove calls from several
\* goroutines, a call that is changing the list or the map holds the lock
\* exclusively, and no two calls are changing them at the same time.
C37_ModifiersHoldTheLock ==
    /\ \A g \in Goroutines : modifying(g) => mu = RWMutex(g, {})
    /\ \A g, h \in Goroutines : (modifying(g) /\ modifying(h)) => g = h
====
